---- MODULE Spec2Model ----
(***************************************************************************)
(* Model of the command session and the reliability harness of the MK3     *)
(* diagnostic tool: CommandTester (src/src/network/commands.py), the       *)
(* session part of MK3ProtocolTester, its run_full_diagnostic, its bit     *)
(* decoders and its direct send operations                                 *)
(* (src/src/network/mk3_protocol.py), the command builders and the volume  *)
(* codec (src/src/network/mk3_commands.py), and the cancel of              *)
(* DiagnosticRunner (src/src/diagnostics/runner.py).                       *)
(*                                                                         *)
(* Abstractions: a latency is kept only as "a sample was recorded" (the    *)
(* code's perf_counter differences are positive floats); a string built    *)
(* with an f-string is a record of its parts; an error rate is the exact   *)
(* fraction failed*100 / count, kept as numerator and denominator.         *)
(***************************************************************************)
EXTENDS Integers, Sequences, FiniteSets, TLC

\* ---------------------------------------------------------------- bounds
MaxCount == 2
MaxOps == 3
MaxDelays == 2
MaxPerTest == 1
MaxGroups == 2
MaxAnomalies == 2
MaxIndex == 16
MaxDbExcess == 2

\* ------------------------------------------------------------- constants
None == "None"
NoDelay == -1

\* What the device / network can do to one connect() call.
ConnectOutcomes == {"ok", "timeout", "refused", "oserror"}

\* What the device / network can do to one sendall()+recv() round trip.
\*   reply        data arrives (no 'error' in it)
\*   error_reply  data arrives and contains the text 'error'
\*   recv_timeout nothing arrives before the receive timeout
\*   peer_closed  recv returns zero bytes (the device closed the connection)
\*   send_timeout sendall itself raises socket.timeout
\*   socket_error sendall or recv raises another exception (reset, broken pipe)
SendOutcomes ==
    {"reply", "error_reply", "recv_timeout", "peer_closed", "send_timeout", "socket_error"}

VARIABLES
    tester,      \* which tester object the run exercises: "cmd" or "mk3"
    ops,         \* number of public operations started so far
    pc,          \* position of the calling thread
    conn,        \* CommandConnection held by the caller
    cancel_flag, \* CommandTester._cancel_flag
    last,        \* the result of the last send (CommandResult / MK3Response)
    lastop,      \* history: the last session operation of the caller and the session before it
    sendlog,     \* history: the last send, its device outcome and the session after it
    badio,       \* history: a sendall was performed on a session that was not connected
    count,       \* burst_test argument
    delay_ms,    \* burst_test argument
    i,           \* burst_test loop index
    result,      \* BurstTestResult / results dict being built
    response_times, \* number of latency samples recorded
    hist,        \* history of the running burst
    caller,      \* who called burst_test: "user" or "find"
    mk3_socket,  \* MK3ProtocolTester._socket
    find,        \* locals of find_optimal_delay
    diag,        \* locals of run_full_diagnostic and of query_all_group_status
    runner_cancel, \* DiagnosticRunner._cancel_flag
    report, \* DiagnosticReport being built by run_diagnostics
    workers, \* the GUI worker threads that share the MK3ProtocolTester, and the sockets they made
    codec        \* the last call of a command builder, codec, decoder or direct send

vars == <<tester, workers, report, ops, pc, conn, cancel_flag, last, lastop, sendlog, badio, count,
          delay_ms, i, result, response_times, hist, caller, mk3_socket, find, diag,
          runner_cancel, codec>>

\* ------------------------------------------------------------ data types
Err(kind, n, detail) == [kind |-> kind, n |-> n, detail |-> detail]

\* CommandConnection(ip_address, port): the dataclass defaults.
NewConnection == [sock |-> FALSE, is_connected |-> FALSE, last_error |-> None]

\* CommandResult(command, success=False) and its optional fields.
NewCommandResult == [success |-> FALSE, error |-> None, has_time |-> FALSE, has_data |-> FALSE]

\* An error rate as an exact fraction num/den (percent).
Rate(num, den) == [num |-> num, den |-> den]
RateEq(a, b) == a.num * b.den = b.num * a.den
RateLeq(a, b) == a.num * b.den <= b.num * a.den

NewBurstResult(n) ==
    [total |-> n, successful |-> 0, failed |-> 0, error_rate |-> Rate(0, 1),
     errors |-> <<>>, individual_results |-> <<>>]

\* A session operation and the session state before it.
Op(name, c) ==
    [op |-> name, sock |-> c.sock, is_connected |-> c.is_connected,
     last_error |-> c.last_error]

NoSend == [tester |-> None, outcome |-> None, success |-> FALSE, error |-> None,
           connected_after |-> FALSE, wrote |-> FALSE]

\* outstanding: commands written to the current socket whose reply was not read
\* before the receive timeout; pipelined: a command was written while one was
\* outstanding; late: data recorded for a command was the reply to an earlier one.
NewHist == [connect_ok |-> FALSE, reconnects |-> 0, sent |-> 0, replies |-> 0,
            error_replies |-> 0, cancelled |-> FALSE, sent_at_cancel |-> 0,
            outstanding |-> 0, pipelined |-> FALSE, late |-> FALSE]

\* What one round trip does to the replies owed on the session: a receive that
\* timed out leaves the reply owed on the socket, which stays in use; data read
\* while a reply is owed is that earlier reply when the device did answer it
\* (is_late), the byte stream being ordered; a new socket owes nothing.
Owed(h, wrote, o, is_late, reconnected) ==
    [h EXCEPT
       !.pipelined = @ \/ (wrote /\ h.outstanding > 0),
       !.late = @ \/ (wrote /\ h.outstanding > 0 /\ o \in {"reply", "error_reply"} /\ is_late),
       !.outstanding = IF reconnected THEN 0
                       ELSE IF wrote /\ o = "recv_timeout" THEN @ + 1
                       ELSE @]

NewFind == [delays |-> <<>>, k |-> 0, per_test |-> 0, threshold |-> 0, tests |-> <<>>,
            recommended_delay_ms |-> NoDelay, all_passed |-> FALSE, cancelled |-> FALSE,
            lost |-> FALSE]

\* ----------------------------------------------------- MK3 status objects
\* An Optional[...] field is a sequence of at most one element: <<>> is None.
\* A dict is a function on the keys it holds.
EmptyDict == [k \in {} |-> <<>>]
Put(d, k, v) == (k :> v) @@ d

\* The name of a query: the global queries have no group (-1).
QueryName(q, g) == [q |-> q, g |-> g]

\* MK3DeviceStatus(ip, port, is_reachable=False): the dataclass defaults.
NewStatus ==
    [is_reachable |-> FALSE, power_status |-> <<>>, global_protect |-> <<>>,
     thermal_status |-> <<>>, groups |-> <<>>, channels |-> <<>>, errors |-> <<>>,
     raw_responses |-> EmptyDict, has_any_fault |-> FALSE, fault_summary |-> <<>>]

\* MK3ProtocolTester.GROUP_NAMES
GROUP_NAMES == <<"A", "B", "C", "D", "E", "F", "G", "H">>

\* MK3GroupStatus(group_index=i, group_name=GROUP_NAMES[i]): the dataclass defaults.
NewGroupStatus(n) ==
    [group_index |-> n, group_name |-> GROUP_NAMES[n + 1], volume |-> <<>>, mute |-> <<>>, source |-> <<>>,
     protect_status |-> <<>>, raw_volume |-> <<>>, raw_mute |-> <<>>, raw_source |-> <<>>,
     raw_protect |-> <<>>]

\* The locals of run_full_diagnostic and of the query_all_group_status it calls,
\* and the history of the run: the queries written to a socket in order (qlog),
\* the payload of every successful round trip by query name (received), the
\* stages that failed (failed: a global query or the connect for the groups) and
\* those of them whose query was written and not answered in time (unanswered),
\* the connects attempted and the connections opened after the probe, the number
\* of events that were not the nominal device answer, and whether a query was
\* written after DiagnosticRunner.cancel.
NewDiag ==
    [num_groups |-> 0, status |-> NewStatus, g |-> 0, q |-> 1, cur |-> NewGroupStatus(0),
     groups |-> <<>>, qlog |-> <<>>, received |-> EmptyDict, failed |-> {},
     unanswered |-> {}, connects |-> 0, opened |-> 0, anomalies |-> 0, after_cancel |-> FALSE]

\* One call of a command builder, of the volume codec, of a bit decoder or of a
\* direct send: its arguments (cmd, index, db, byte), whether it raised, the bytes
\* it built, whether they were written to a socket, the volume byte (hex) and the
\* dB decoded from it (back), and the flags a decoder returned.
CodecCall(fn, cmd, index, db, byte) ==
    [fn |-> fn, cmd |-> cmd, index |-> index, db |-> db, byte |-> byte,
     raised |-> FALSE, bytes |-> <<>>, sent |-> FALSE, hex |-> 0, back |-> 0,
     flags |-> <<>>]

\* DiagnosticReport(): no test, the four counters at zero, overall_status "unknown".
NewReport ==
    [tests |-> <<>>,
     summary |-> [passed |-> 0, failed |-> 0, warnings |-> 0, skipped |-> 0],
     overall_status |-> "unknown"]

\* The two worker threads of two control-panel actions: each runs one
\* send_command_simple on the shared MK3ProtocolTester.
Workers == {"w1", "w2"}

\* No worker has started. th: each thread's position in send_command_simple and
\* the MK3Response it returns (raised: an exception left the call); socks: the
\* socket each thread's _connect creates, named after the thread, with the
\* commands written on it whose replies are unread. History: replaced, a
\* _connect overwrote a socket another running operation had made; closed_other
\* and cleared_other, a _disconnect closed or dropped such a socket.
NewWorkers ==
    [th |-> [w \in Workers |->
               [pc |-> "start", raised |-> FALSE, success |-> FALSE, error |-> None,
                got |-> {}]],
     socks |-> [w \in Workers |-> [state |-> "none", pending |-> <<>>]],
     replaced |-> FALSE, closed_other |-> FALSE, cleared_other |-> FALSE]

\* No such call has been made.
NewCodec == CodecCall(None, 0, 0, 0, 0)

\* ------------------------------------------------- CommandTester session
\* CommandTester.connect: a new CommandConnection, connected or carrying last_error.
CmdConnect(o) ==
    IF o = "ok" THEN [sock |-> TRUE, is_connected |-> TRUE, last_error |-> None]
    ELSE [sock |-> FALSE, is_connected |-> FALSE,
          last_error |-> CASE o = "timeout" -> "Connection timeout"
                           [] o = "refused" -> "Connection refused"
                           [] OTHER -> "oserror"]

\* Faulty variant of CmdDisconnect: the socket is dropped but is_connected is left as it was.
CmdDisconnect_KeepsFlag(c) ==
    IF c.sock THEN [c EXCEPT !.sock = FALSE] ELSE c

\* CommandTester.disconnect: close and forget the socket when there is one.
CmdDisconnect(c) ==
    IF c.sock THEN [c EXCEPT !.sock = FALSE, !.is_connected = FALSE] ELSE c

\* Faulty variant of CmdCanSend: only the socket is looked at, not is_connected.
CmdCanSend_SockOnly(c) == c.sock

\* The guard of CommandTester.send_command.
CmdCanSend(c) == c.is_connected /\ c.sock

\* CommandTester.send_command: the connection afterwards, the CommandResult,
\* and whether sendall was called.
CmdSendCommand(c, o) ==
    IF ~CmdCanSend(c)
    THEN [conn |-> c, res |-> [NewCommandResult EXCEPT !.error = "Not connected"],
          wrote |-> FALSE]
    ELSE CASE o = "reply" ->
                [conn |-> c, wrote |-> TRUE,
                 res |-> [success |-> TRUE, error |-> None, has_time |-> TRUE,
                          has_data |-> TRUE]]
           [] o = "error_reply" ->
                [conn |-> c, wrote |-> TRUE,
                 res |-> [success |-> FALSE, error |-> "Command error", has_time |-> TRUE,
                          has_data |-> TRUE]]
           [] o \in {"recv_timeout", "peer_closed"} ->
                [conn |-> c, wrote |-> TRUE,
                 res |-> [success |-> FALSE, error |-> "No response received",
                          has_time |-> TRUE, has_data |-> FALSE]]
           [] o = "send_timeout" ->
                [conn |-> c, wrote |-> TRUE,
                 res |-> [success |-> FALSE, error |-> "Timeout waiting for response",
                          has_time |-> FALSE, has_data |-> FALSE]]
           [] OTHER ->
                [conn |-> [c EXCEPT !.is_connected = FALSE], wrote |-> TRUE,
                 res |-> [success |-> FALSE, error |-> "exception", has_time |-> FALSE,
                          has_data |-> FALSE]]

\* The MK3 session as a connection record: it holds a socket or not.
Mk3Session ==
    [sock |-> mk3_socket # None, is_connected |-> mk3_socket = "connected",
     last_error |-> None]

SendRecord(t, o, r, connected) ==
    [tester |-> t, outcome |-> IF r.wrote THEN o ELSE None, success |-> r.res.success, error |-> r.res.error,
     connected_after |-> connected, wrote |-> r.wrote]

\* The caller of the CommandTester is between two calls. burst_test and
\* find_optimal_delay work on a connection of their own, so a behaviour runs either
\* a sequence of session calls or one burst test or one delay search.
Idle == pc = "idle"

\* The caller of the MK3ProtocolTester is between two calls.
Mk3Idle == pc \in {"idle", "burst_done", "burst_raised"}

Init ==
    /\ tester \in {"cmd", "mk3"}
    /\ ops = 0
    /\ pc = "idle"
    /\ conn = NewConnection
    /\ cancel_flag = FALSE
    /\ last = NewCommandResult
    /\ sendlog = NoSend
    /\ lastop = Op(None, NewConnection)
    /\ badio = FALSE
    /\ count = 0
    /\ delay_ms = 0
    /\ i = 0
    /\ result = NewBurstResult(0)
    /\ response_times = 0
    /\ hist = NewHist
    /\ caller = "user"
    /\ mk3_socket = None
    /\ find = NewFind
    /\ diag = NewDiag
    /\ runner_cancel = FALSE
    /\ codec = NewCodec
    /\ workers = NewWorkers
    /\ report = NewReport

\* The caller calls CommandTester.connect.
Connect ==
    /\ tester = "cmd" /\ Idle /\ ops < MaxOps
    /\ \E o \in ConnectOutcomes : conn' = CmdConnect(o)
    /\ ops' = ops + 1
    /\ pc' = "idle"
    /\ lastop' = Op("connect", conn)
    /\ UNCHANGED <<diag, runner_cancel, tester, workers, report, codec, cancel_flag, last, sendlog, badio, count, delay_ms, i,
                   result, response_times, hist, caller, mk3_socket, find>>

\* The caller calls CommandTester.send_command on the connection it holds.
Send ==
    /\ tester = "cmd" /\ Idle /\ ops < MaxOps
    /\ \E o \in SendOutcomes :
         LET r == CmdSendCommand(conn, o) IN
         /\ conn' = r.conn
         /\ last' = r.res
         /\ sendlog' = SendRecord("cmd", o, r, r.conn.is_connected)
         /\ badio' = (badio \/ (r.wrote /\ ~(conn.is_connected /\ conn.sock)))
    /\ ops' = ops + 1
    /\ pc' = "idle"
    /\ lastop' = Op("send", conn)
    /\ UNCHANGED <<diag, runner_cancel, tester, workers, report, codec, cancel_flag, count, delay_ms, i, result, response_times, hist,
                   caller, mk3_socket, find>>

\* The caller calls CommandTester.disconnect on the connection it holds.
Disconnect ==
    /\ tester = "cmd" /\ Idle /\ ops < MaxOps
    /\ conn' = CmdDisconnect(conn)
    /\ ops' = ops + 1
    /\ pc' = "idle"
    /\ lastop' = Op("disconnect", conn)
    /\ UNCHANGED <<diag, runner_cancel, tester, workers, report, codec, cancel_flag, last, sendlog, badio, count, delay_ms, i,
                   result, response_times, hist, caller, mk3_socket, find>>

\* Another thread calls CommandTester.cancel.
Cancel ==
    /\ tester = "cmd" /\ ~cancel_flag
    /\ pc \in {"idle", "burst_loop", "burst_break", "find_loop", "find_call", "find_record"}
    /\ cancel_flag' = TRUE
    /\ hist' = [hist EXCEPT !.cancelled = TRUE, !.sent_at_cancel = hist.sent]
    /\ find' = [find EXCEPT !.cancelled = TRUE]
    /\ UNCHANGED lastop
    /\ UNCHANGED <<diag, runner_cancel, tester, workers, report, codec, ops, pc, conn, last, sendlog, badio, count, delay_ms, i,
                   result, response_times, caller, mk3_socket>>

\* ---------------------------------------------- CommandTester.burst_test
\* Faulty variant of ConnectFailedResult: failed_commands is not set to count.
ConnectFailedResult_NoCount(n, err) ==
    [NewBurstResult(n) EXCEPT
       !.error_rate = Rate(100, 1),
       !.errors = <<Err("Failed to connect", 0, err)>>]

\* The BurstTestResult burst_test returns when its initial connect failed.
ConnectFailedResult(n, err) ==
    [NewBurstResult(n) EXCEPT
       !.failed = n,
       !.error_rate = Rate(100, 1),
       !.errors = <<Err("Failed to connect", 0, err)>>]

\* burst_test up to its loop: reset_cancel, the empty result, the initial connect
\* and the early return when it fails.
BurstBegin(n, d, who) ==
    /\ cancel_flag' = FALSE
    /\ count' = n
    /\ delay_ms' = d
    /\ caller' = who
    /\ i' = 0
    /\ response_times' = 0
    /\ \E o \in ConnectOutcomes :
         LET c == CmdConnect(o) IN
         /\ conn' = c
         /\ hist' = [NewHist EXCEPT !.connect_ok = c.is_connected]
         /\ IF ~c.is_connected
            THEN /\ result' = ConnectFailedResult(n, c.last_error)
                 /\ pc' = IF who = "find" THEN "find_record" ELSE "burst_done"
            ELSE /\ result' = NewBurstResult(n)
                 /\ pc' = "burst_loop"

\* The caller starts a burst test.
BurstStart ==
    /\ tester = "cmd" /\ Idle /\ ops = 0
    /\ \E n \in 0..MaxCount, d \in {0, 50} : BurstBegin(n, d, "user")
    /\ ops' = ops + 1
    /\ lastop' = Op("burst_test", conn)
    /\ UNCHANGED <<diag, runner_cancel, tester, workers, report, codec, last, sendlog, badio, mk3_socket, find>>

\* Faulty variant of CountResult: failed_commands is incremented for every command.
CountResult_AlwaysFailed(res, r, n) ==
    [res EXCEPT
       !.individual_results = Append(@, r.success),
       !.successful = IF r.success THEN @ + 1 ELSE @,
       !.failed = @ + 1,
       !.errors = IF ~r.success /\ r.error # None
                  THEN Append(@, Err("Command", n, r.error)) ELSE @]

\* The BurstTestResult after one command's CommandResult has been counted.
CountResult(res, r, n) ==
    [res EXCEPT
       !.individual_results = Append(@, r.success),
       !.successful = IF r.success THEN @ + 1 ELSE @,
       !.failed = IF r.success THEN @ ELSE @ + 1,
       !.errors = IF ~r.success /\ r.error # None
                  THEN Append(@, Err("Command", n, r.error)) ELSE @]

\* Faulty variant of LoopContinues: the cancel flag is not looked at.
LoopContinues_IgnoresCancel == pc = "burst_loop" /\ i < count

\* The loop of burst_test enters its next iteration: range(count) is not exhausted
\* and the cancel flag is not set.
LoopContinues == pc = "burst_loop" /\ i < count /\ ~cancel_flag

\* One iteration of the loop of burst_test: the cancel check, the send, the
\* counting, and the reconnect when the send marked the connection lost (the lost
\* connection object is disconnected and replaced by the one connect returns).
BurstIter ==
    /\ tester = "cmd" /\ LoopContinues
    /\ \E o \in SendOutcomes, ro \in ConnectOutcomes, is_late \in BOOLEAN :
         LET r == CmdSendCommand(conn, o)
             counted == CountResult(result, r.res, i + 1)
             lost == ~r.conn.is_connected
             c2 == IF lost THEN CmdConnect(ro) ELSE r.conn
             broke == lost /\ ~c2.is_connected
         IN
         /\ conn' = c2
         /\ last' = r.res
         /\ sendlog' = SendRecord("cmd", o, r, r.conn.is_connected)
         /\ badio' = (badio \/ (r.wrote /\ ~(conn.is_connected /\ conn.sock)))
         /\ response_times' = IF r.res.success /\ r.res.has_time
                              THEN response_times + 1 ELSE response_times
         /\ result' = IF broke
                      THEN [counted EXCEPT
                              !.errors = Append(@, Err("Reconnection failed", 0, None))]
                      ELSE counted
         /\ hist' = [Owed(hist, r.wrote, o, is_late, lost) EXCEPT
                       !.sent = IF r.wrote THEN @ + 1 ELSE @,
                       !.replies = IF r.wrote /\ o \in {"reply", "error_reply"}
                                   THEN @ + 1 ELSE @,
                       !.error_replies = IF r.wrote /\ o = "error_reply" THEN @ + 1 ELSE @,
                       !.reconnects = IF lost THEN @ + 1 ELSE @]
         /\ pc' = IF broke THEN "burst_break" ELSE "burst_loop"
         /\ i' = IF broke THEN i ELSE i + 1
    /\ UNCHANGED lastop
    /\ UNCHANGED <<diag, runner_cancel, tester, workers, report, codec, ops, cancel_flag, count, delay_ms, caller, mk3_socket, find>>

\* The loop of burst_test is over: range(count) is exhausted, the cancel flag
\* was seen, or the reconnect failed.
LoopOver == pc = "burst_break" \/ (pc = "burst_loop" /\ (i >= count \/ cancel_flag))

\* burst_test after its loop: disconnect, the error rate (a division by count)
\* and the return.
BurstFinish ==
    /\ tester = "cmd" /\ LoopOver
    /\ conn' = CmdDisconnect(conn)
    /\ IF count = 0
       THEN /\ pc' = IF caller = "find" THEN "find_raised" ELSE "burst_raised"
            /\ result' = result
       ELSE /\ pc' = IF caller = "find" THEN "find_record" ELSE "burst_done"
            /\ result' = [result EXCEPT !.error_rate = Rate(result.failed * 100, count)]
    /\ UNCHANGED lastop
    /\ UNCHANGED <<diag, runner_cancel, tester, workers, report, codec, ops, cancel_flag, last, sendlog, badio, count, delay_ms, i,
                   response_times, hist, caller, mk3_socket, find>>

\* ---------------------------------------- CommandTester.find_optimal_delay
\* Candidate delay lists: every list of at most MaxDelays delays, in any order.
DelayValues == {0, 10}
DelayLists == UNION {[1..n -> DelayValues] : n \in 0..MaxDelays}

\* max_acceptable_error_rate values tried (5.0 is the default), in percent.
Thresholds == {5, 50}

\* The entry find_optimal_delay records for one burst.
TestEntry(d, res) ==
    [delay_ms |-> d, error_rate |-> res.error_rate, successful |-> res.successful,
     failed |-> res.failed]

\* "if test_result.error_rate_percent <= max_acceptable_error_rate"
Acceptable(rate, th) == RateLeq(rate, Rate(th, 1))

\* The recommendation after one more burst: the first acceptable delay is kept.
Recommend(cur, d, rate, th) ==
    IF Acceptable(rate, th) /\ cur = NoDelay THEN d ELSE cur

\* The final step of find_optimal_delay: "Check if all tests passed at zero delay"
\* looks at the first recorded test, whatever its delay.
FinalVerdict(f) ==
    IF f.tests # <<>> /\ Acceptable(f.tests[1].error_rate, f.threshold)
    THEN [f EXCEPT !.all_passed = TRUE, !.recommended_delay_ms = 0]
    ELSE f

\* The caller starts a delay search.
FindStart ==
    /\ tester = "cmd" /\ Idle /\ ops = 0
    /\ \E ds \in DelayLists, n \in 0..MaxPerTest, th \in Thresholds :
         find' = [NewFind EXCEPT !.delays = ds, !.k = 1, !.per_test = n, !.threshold = th,
                                 !.cancelled = cancel_flag]
    /\ ops' = ops + 1
    /\ pc' = "find_loop"
    /\ lastop' = Op("find_optimal_delay", conn)
    /\ UNCHANGED <<diag, runner_cancel, tester, workers, report, codec, conn, cancel_flag, last, sendlog, badio, count, delay_ms, i,
                   result, response_times, hist, caller, mk3_socket>>

\* The head of the loop of find_optimal_delay: the cancel flag is not set and a
\* delay is left, so burst_test is about to be called.
FindIter ==
    /\ tester = "cmd" /\ pc = "find_loop" /\ find.k <= Len(find.delays) /\ ~cancel_flag
    /\ pc' = "find_call"
    /\ UNCHANGED <<diag, runner_cancel, tester, workers, report, codec, ops, conn, cancel_flag, last, lastop, sendlog,
                   badio, count, delay_ms, i, result, response_times, hist, caller,
                   mk3_socket, find>>

\* find_optimal_delay calls burst_test, which starts with reset_cancel: a cancel
\* set since the check at the head of the loop is erased (find.lost records it).
FindBurst ==
    /\ tester = "cmd" /\ pc = "find_call"
    /\ BurstBegin(find.per_test, find.delays[find.k], "find")
    /\ find' = [find EXCEPT !.lost = @ \/ cancel_flag]
    /\ UNCHANGED <<diag, runner_cancel, tester, workers, report, codec, ops, last, lastop, sendlog, badio, mk3_socket>>

\* burst_test has returned: the test entry and the recommendation. The locals of
\* the finished burst_test go out of scope.
FindRecord ==
    /\ tester = "cmd" /\ pc = "find_record"
    /\ find' = [find EXCEPT
                  !.tests = Append(@, TestEntry(delay_ms, result)),
                  !.recommended_delay_ms =
                      Recommend(@, delay_ms, result.error_rate, find.threshold),
                  !.k = @ + 1]
    /\ pc' = "find_loop"
    /\ conn' = NewConnection
    /\ last' = NewCommandResult
    /\ sendlog' = NoSend
    /\ count' = 0
    /\ delay_ms' = 0
    /\ i' = 0
    /\ result' = NewBurstResult(0)
    /\ response_times' = 0
    /\ hist' = NewHist
    /\ UNCHANGED <<diag, runner_cancel, tester, workers, report, codec, ops, cancel_flag, lastop, badio, caller, mk3_socket>>

\* Faulty variant of SearchOver: the search also stops once a delay has been recommended.
SearchOver_StopsAtFirstPass ==
    pc = "find_loop" /\ (find.k > Len(find.delays) \/ cancel_flag
                           \/ find.recommended_delay_ms # NoDelay)

\* The loop of find_optimal_delay is over: the list is exhausted or the cancel
\* flag was seen.
SearchOver == pc = "find_loop" /\ (find.k > Len(find.delays) \/ cancel_flag)

\* find_optimal_delay after its loop.
FindFinish ==
    /\ tester = "cmd" /\ SearchOver
    /\ find' = FinalVerdict(find)
    /\ pc' = "find_done"
    /\ UNCHANGED <<diag, runner_cancel, tester, workers, report, codec, ops, conn, cancel_flag, last, lastop, sendlog, badio, count,
                   delay_ms, i, result, response_times, hist, caller, mk3_socket>>

\* ------------------------------------------------ MK3ProtocolTester session
\* MK3ProtocolTester._connect: the socket object is stored in self._socket before
\* connect() is tried, so a failed connect leaves an unconnected socket there.
Mk3Connect(o) ==
    [socket |-> IF o = "ok" THEN "connected" ELSE "unconnected",
     ok |-> (o = "ok"),
     error |-> CASE o = "ok" -> None
                 [] o = "timeout" -> "Connection timed out"
                 [] o = "refused" -> "Connection refused"
                 [] OTHER -> "Connection error"]

\* MK3ProtocolTester._disconnect: close and forget the socket when there is one.
Mk3Disconnect(s) == IF s # None THEN None ELSE s

\* MK3ProtocolTester._send_command: the MK3Response and whether sendall was called.
\* sendall on a socket whose connect failed raises OSError whatever the device does.
Mk3SendCommand(s, o) ==
    IF s = None
    THEN [res |-> [NewCommandResult EXCEPT !.error = "Not connected"], wrote |-> FALSE]
    ELSE CASE s = "unconnected" \/ o = "socket_error" ->
                [wrote |-> TRUE,
                 res |-> [success |-> FALSE, error |-> "exception", has_time |-> TRUE,
                          has_data |-> FALSE]]
           [] o \in {"recv_timeout", "send_timeout"} ->
                [wrote |-> TRUE,
                 res |-> [success |-> FALSE, error |-> "Response timeout",
                          has_time |-> TRUE, has_data |-> FALSE]]
           [] o = "peer_closed" ->
                [wrote |-> TRUE,
                 res |-> [success |-> TRUE, error |-> None, has_time |-> TRUE,
                          has_data |-> FALSE]]
           [] OTHER ->
                [wrote |-> TRUE,
                 res |-> [success |-> TRUE, error |-> None, has_time |-> TRUE,
                          has_data |-> TRUE]]

\* MK3ProtocolTester.send_command_simple: connect, send, disconnect.
SendCommandSimple ==
    /\ tester = "mk3" /\ Mk3Idle /\ ops < MaxOps
    /\ \E co \in ConnectOutcomes, o \in SendOutcomes :
         LET c == Mk3Connect(co)
             r == Mk3SendCommand(c.socket, o)
         IN
         IF ~c.ok
         THEN /\ mk3_socket' = c.socket
              /\ last' = [NewCommandResult EXCEPT !.error = c.error]
              /\ UNCHANGED <<sendlog, badio>>
         ELSE /\ mk3_socket' = Mk3Disconnect(c.socket)
              /\ last' = r.res
              /\ sendlog' = SendRecord("mk3", o, r, c.socket # None)
              /\ badio' = (badio \/ (r.wrote /\ c.socket # "connected"))
    /\ ops' = ops + 1
    /\ pc' = "idle"
    /\ lastop' = Op("send_command_simple", Mk3Session)
    /\ UNCHANGED <<diag, runner_cancel, tester, workers, report, conn, cancel_flag, count, delay_ms, i, result,
                   response_times, hist, caller, find>>

\* The caller calls send_command_simple.
Mk3SendCommandSimple == SendCommandSimple /\ UNCHANGED codec

\* MK3ProtocolTester.test_connectivity: connect and, when that worked, disconnect.
Mk3TestConnectivity ==
    /\ tester = "mk3" /\ Mk3Idle /\ ops < MaxOps
    /\ \E co \in ConnectOutcomes :
         LET c == Mk3Connect(co) IN
         /\ mk3_socket' = IF c.ok THEN Mk3Disconnect(c.socket) ELSE c.socket
         /\ last' = [NewCommandResult EXCEPT !.success = c.ok, !.error = c.error,
                                             !.has_time = TRUE]
    /\ ops' = ops + 1
    /\ pc' = "idle"
    /\ lastop' = Op("test_connectivity", Mk3Session)
    /\ UNCHANGED <<diag, runner_cancel, tester, workers, report, codec, conn, cancel_flag, sendlog, badio, count, delay_ms, i, result,
                   response_times, hist, caller, find>>

\* The owner of the session calls MK3ProtocolTester._disconnect on whatever
\* socket the tester holds.
Mk3DisconnectOp ==
    /\ tester = "mk3" /\ Mk3Idle /\ ops < MaxOps
    /\ mk3_socket' = Mk3Disconnect(mk3_socket)
    /\ ops' = ops + 1
    /\ pc' = "idle"
    /\ lastop' = Op("disconnect", Mk3Session)
    /\ UNCHANGED <<diag, runner_cancel, tester, workers, report, codec, conn, cancel_flag, last, sendlog, badio, count, delay_ms, i,
                   result, response_times, hist, caller, find>>

\* ------------------------------------------- MK3ProtocolTester.burst_test
\* The results dict MK3ProtocolTester.burst_test returns when its connect failed.
Mk3ConnectFailedResult(n, err) ==
    [NewBurstResult(n) EXCEPT
       !.errors = <<Err("Connection failed", 0, err)>>,
       !.failed = n,
       !.error_rate = Rate(100, 1)]

\* burst_test up to its loop: the results dict, the connect and the early return.
Mk3BurstStart ==
    /\ tester = "mk3" /\ Mk3Idle /\ ops < MaxOps
    /\ \E n \in 0..MaxCount, d \in {0, 50}, co \in ConnectOutcomes :
         LET c == Mk3Connect(co) IN
         /\ count' = n
         /\ delay_ms' = d
         /\ mk3_socket' = c.socket
         /\ hist' = [NewHist EXCEPT !.connect_ok = c.ok]
         /\ IF ~c.ok
            THEN /\ result' = Mk3ConnectFailedResult(n, c.error)
                 /\ pc' = "burst_done"
            ELSE /\ result' = NewBurstResult(n)
                 /\ pc' = "mk3_loop"
    /\ i' = 0
    /\ response_times' = 0
    /\ caller' = "user"
    /\ ops' = ops + 1
    /\ lastop' = Op("burst_test", Mk3Session)
    /\ UNCHANGED <<diag, runner_cancel, tester, workers, report, codec, conn, cancel_flag, last, sendlog, badio, find>>

\* The results dict after one MK3Response has been counted.
Mk3CountResult(res, r) ==
    [res EXCEPT
       !.successful = IF r.success THEN @ + 1 ELSE @,
       !.failed = IF r.success THEN @ ELSE @ + 1,
       !.errors = IF r.success THEN @ ELSE Append(@, Err(None, 0, r.error))]

\* One iteration of the loop of MK3ProtocolTester.burst_test.
Mk3BurstIter ==
    /\ tester = "mk3" /\ pc = "mk3_loop" /\ i < count
    /\ \E o \in SendOutcomes, is_late \in BOOLEAN :
         LET r == Mk3SendCommand(mk3_socket, o) IN
         /\ last' = r.res
         /\ sendlog' = SendRecord("mk3", o, r, mk3_socket # None)
         /\ badio' = (badio \/ (r.wrote /\ mk3_socket # "connected"))
         /\ result' = Mk3CountResult(result, r.res)
         /\ response_times' = IF r.res.success THEN response_times + 1 ELSE response_times
         /\ hist' = [Owed(hist, r.wrote, o, is_late, FALSE) EXCEPT
                       !.sent = IF r.wrote THEN @ + 1 ELSE @,
                       !.replies = IF r.wrote /\ o \in {"reply", "error_reply"}
                                   THEN @ + 1 ELSE @,
                       !.error_replies = IF r.wrote /\ o = "error_reply" THEN @ + 1 ELSE @]
    /\ i' = i + 1
    /\ UNCHANGED lastop
    /\ UNCHANGED <<diag, runner_cancel, tester, workers, report, codec, ops, pc, conn, cancel_flag, count, delay_ms, caller, mk3_socket,
                   find>>

\* MK3ProtocolTester.burst_test after its loop: the finally clause, the error rate
\* (a division by count) and the return.
Mk3BurstFinish ==
    /\ tester = "mk3" /\ pc = "mk3_loop" /\ i >= count
    /\ mk3_socket' = Mk3Disconnect(mk3_socket)
    /\ IF count = 0
       THEN /\ pc' = "burst_raised"
            /\ result' = result
       ELSE /\ pc' = "burst_done"
            /\ result' = [result EXCEPT !.error_rate = Rate(result.failed * 100, count)]
    /\ UNCHANGED lastop
    /\ UNCHANGED <<diag, runner_cancel, tester, workers, report, codec, ops, conn, cancel_flag, last, sendlog, badio, count, delay_ms, i,
                   response_times, hist, caller, find>>

\* -------------------------------------------------- bit and state decoders
Bit(b, k) == (b \div (2 ^ k)) % 2 = 1

\* Faulty variant of GlobalProtectBits_decode: has_any_fault looks at the four
\* named bits only.
GlobalProtectBits_decode_NamedBitsOnly(b) ==
    [protection_active |-> Bit(b, 0), thermal_warning |-> Bit(b, 1),
     power_supply_fault |-> Bit(b, 2), amplifier_fault |-> Bit(b, 3),
     reserved_bits |-> (b \div 16) % 16, raw_value |-> b,
     has_any_fault |-> (b % 16 # 0)]

\* GlobalProtectBits.decode
GlobalProtectBits_decode(b) ==
    [protection_active |-> Bit(b, 0), thermal_warning |-> Bit(b, 1),
     power_supply_fault |-> Bit(b, 2), amplifier_fault |-> Bit(b, 3),
     reserved_bits |-> (b \div 16) % 16, raw_value |-> b, has_any_fault |-> (b # 0)]

\* Faulty variant of GroupProtectBits_decode: bit 7 is dropped from reserved_bits.
GroupProtectBits_decode_DropsBit7(b) ==
    [muted_due_to_protect |-> Bit(b, 0), thermal_protect |-> Bit(b, 1),
     over_current |-> Bit(b, 2), load_fault |-> Bit(b, 3), dc_fault |-> Bit(b, 4),
     reserved_bits |-> (b \div 32) % 4, raw_value |-> b, has_any_fault |-> (b # 0)]

\* GroupProtectBits.decode
GroupProtectBits_decode(b) ==
    [muted_due_to_protect |-> Bit(b, 0), thermal_protect |-> Bit(b, 1),
     over_current |-> Bit(b, 2), load_fault |-> Bit(b, 3), dc_fault |-> Bit(b, 4),
     reserved_bits |-> (b \div 32) % 8, raw_value |-> b, has_any_fault |-> (b # 0)]

\* ThermalState.decode: NORMAL 0, WARM 1, HOT 2, THERMAL_PROTECT 3.
ThermalState_decode(b) ==
    [state_code |-> b, is_normal |-> (b = 0), is_warning |-> (b \in {1, 2}),
     is_critical |-> (b = 3)]

\* ---------------------------------- MK3ProtocolTester.run_full_diagnostic
\* The first byte of a reply (the decoders read raw_data[0] only).
ReplyBytes == {0, 1, 3}

\* The first byte of a reply to a query of a group.
GroupReplyBytes == {0, 1}

\* A device answer other than the nominal one (the connect is accepted and a
\* reply with byte 0 arrives) counts against MaxAnomalies, and so does a cancel.
Anomaly(co, o, b) == IF co = "ok" /\ o = "reply" /\ b = 0 THEN 0 ELSE 1

\* The MK3Response of _send_command, with the payload the device sent.
Mk3Response(res, b) ==
    [success |-> res.success, error |-> res.error,
     raw_data |-> IF res.success /\ res.has_data THEN <<b>> ELSE <<>>]

\* send_command_simple as the query_* functions use it: the response, the socket
\* the tester holds afterwards, whether the command was written and whether a
\* connection was opened.
Mk3SimpleQuery(co, o, b) ==
    LET c == Mk3Connect(co)
        r == Mk3SendCommand(c.socket, o)
    IN IF ~c.ok
       THEN [resp |-> [success |-> FALSE, error |-> c.error, raw_data |-> <<>>],
             socket |-> c.socket, sent |-> FALSE, opened |-> FALSE]
       ELSE [resp |-> Mk3Response(r.res, b), socket |-> Mk3Disconnect(c.socket),
             sent |-> r.wrote, opened |-> TRUE]

\* The history of the run after one query: name is the query, sent whether its
\* command was written, attempts and opens the connects attempted and opened.
Logged(d, name, resp, sent, attempts, opens, cost) ==
    [d EXCEPT
       !.qlog = IF sent THEN Append(@, name) ELSE @,
       !.received = IF resp.success THEN Put(@, name, resp.raw_data) ELSE @,
       !.failed = IF resp.success \/ name.g # -1 THEN @ ELSE @ \cup {name.q},
       !.unanswered = IF name.g = -1 /\ sent /\ resp.error = "Response timeout"
                      THEN @ \cup {name.q} ELSE @,
       !.connects = @ + attempts,
       !.opened = @ + opens,
       !.anomalies = @ + cost,
       !.after_cancel = @ \/ (runner_cancel /\ sent)]

\* Faulty variant of AfterProbe: the queries are run even when the probe failed.
AfterProbe_Continues(ok) == "diag_power"

\* run_full_diagnostic returns at once when the connectivity probe failed.
AfterProbe(ok) == IF ok THEN "diag_power" ELSE "diag_done"

\* run_full_diagnostic up to the power query: the empty status and the
\* connectivity probe (test_connectivity: connect and, when that worked, disconnect).
DiagStart ==
    /\ tester = "mk3" /\ Idle /\ ops = 0
    /\ \E n \in 0..MaxGroups, co \in ConnectOutcomes :
         LET c == Mk3Connect(co)
             cost == Anomaly(co, "reply", 0)
         IN
         /\ mk3_socket' = IF c.ok THEN Mk3Disconnect(c.socket) ELSE c.socket
         /\ last' = [NewCommandResult EXCEPT !.success = c.ok, !.error = c.error,
                                             !.has_time = TRUE]
         /\ diag' = [NewDiag EXCEPT
                       !.num_groups = n,
                       !.status.is_reachable = c.ok,
                       !.status.errors = IF c.ok THEN @
                                         ELSE Append(@, Err("Connection failed", 0, c.error)),
                       !.connects = 1,
                       !.anomalies = cost]
         /\ pc' = AfterProbe(c.ok)
    /\ ops' = ops + 1
    /\ lastop' = Op("run_full_diagnostic", Mk3Session)
    /\ UNCHANGED <<runner_cancel, tester, workers, report, codec, conn, cancel_flag, sendlog, badio, count,
                   delay_ms, i, result, response_times, hist, caller, find>>

\* query_power_status and what run_full_diagnostic does with its response.
DiagPower ==
    /\ tester = "mk3" /\ pc = "diag_power"
    /\ \E co \in ConnectOutcomes, o \in SendOutcomes, b \in ReplyBytes :
         LET x == Mk3SimpleQuery(co, o, b)
             resp == x.resp
             name == QueryName("power", -1)
             cost == Anomaly(co, o, b)
         IN
         /\ diag.anomalies + cost <= MaxAnomalies
         /\ mk3_socket' = x.socket
         /\ diag' = [Logged(diag, name, resp, x.sent, 1, IF x.opened THEN 1 ELSE 0, cost)
                     EXCEPT
                       !.status.power_status =
                           IF resp.success /\ resp.raw_data # <<>>
                           THEN <<[is_on |-> (resp.raw_data[1] = 1)]>> ELSE <<>>,
                       !.status.raw_responses =
                           IF resp.success THEN Put(@, name, resp.raw_data) ELSE @,
                       !.status.errors =
                           IF resp.success THEN @
                           ELSE Append(@, Err("Power query failed", 0, resp.error))]
    /\ pc' = "diag_global"
    /\ UNCHANGED <<runner_cancel, tester, workers, report, codec, ops, conn, cancel_flag, last, lastop, sendlog,
                   badio, count, delay_ms, i, result, response_times, hist, caller, find>>

\* Faulty variant of FaultFlag: the flag is assigned the result of the last check.
FaultFlag_Overwrites(old, found) == found

\* "if <fault found>: status.has_any_fault = True": the flag after one check.
FaultFlag(old, found) == IF found THEN TRUE ELSE old

\* The fault_summary lines of the global protect status, in the order appended.
GlobalFaultSummary(gp) ==
    (IF gp.protection_active THEN <<"PROTECTION ACTIVE">> ELSE <<>>)
    \o (IF gp.thermal_warning THEN <<"THERMAL WARNING">> ELSE <<>>)
    \o (IF gp.power_supply_fault THEN <<"POWER SUPPLY FAULT">> ELSE <<>>)
    \o (IF gp.amplifier_fault THEN <<"AMPLIFIER FAULT">> ELSE <<>>)

\* The MK3GlobalProtectStatus query_global_protect_status builds from the decoded
\* flags: reserved_bits is not copied, raw_value is.
MK3GlobalProtectStatus(decoded) ==
    [protection_active |-> decoded.protection_active,
     thermal_warning |-> decoded.thermal_warning,
     power_supply_fault |-> decoded.power_supply_fault,
     amplifier_fault |-> decoded.amplifier_fault,
     has_any_fault |-> decoded.has_any_fault,
     raw_value |-> decoded.raw_value]

\* query_global_protect_status and what run_full_diagnostic does with its response.
DiagGlobalProtect ==
    /\ tester = "mk3" /\ pc = "diag_global"
    /\ \E co \in ConnectOutcomes, o \in SendOutcomes, b \in ReplyBytes :
         LET x == Mk3SimpleQuery(co, o, b)
             resp == x.resp
             name == QueryName("global_protect", -1)
             cost == Anomaly(co, o, b)
             parsed == resp.success /\ resp.raw_data # <<>>
             gp == MK3GlobalProtectStatus(GlobalProtectBits_decode(resp.raw_data[1]))
         IN
         /\ diag.anomalies + cost <= MaxAnomalies
         /\ mk3_socket' = x.socket
         /\ diag' = [Logged(diag, name, resp, x.sent, 1, IF x.opened THEN 1 ELSE 0, cost)
                     EXCEPT
                       !.status.global_protect = IF parsed THEN <<gp>> ELSE @,
                       !.status.raw_responses =
                           IF parsed THEN Put(@, name, resp.raw_data) ELSE @,
                       !.status.has_any_fault =
                           FaultFlag(@, parsed /\ gp.has_any_fault),
                       !.status.fault_summary =
                           IF parsed /\ gp.has_any_fault
                           THEN @ \o GlobalFaultSummary(gp) ELSE @]
    /\ pc' = "diag_thermal"
    /\ UNCHANGED <<runner_cancel, tester, workers, report, codec, ops, conn, cancel_flag, last, lastop, sendlog,
                   badio, count, delay_ms, i, result, response_times, hist, caller, find>>

\* The parsed_value of query_thermal_state: the decoded MK3ThermalStatus, the
\* "Query not supported" one when the response carries an error, or None.
ThermalParsed(resp) ==
    IF resp.success /\ resp.raw_data # <<>>
    THEN <<ThermalState_decode(resp.raw_data[1]) @@ [query_supported |-> TRUE]>>
    ELSE IF resp.error # None
         THEN <<[state_code |-> 0, is_normal |-> TRUE, is_warning |-> FALSE,
                 is_critical |-> FALSE, query_supported |-> FALSE]>>
         ELSE <<>>

\* query_thermal_state and what run_full_diagnostic does with its response.
DiagThermal ==
    /\ tester = "mk3" /\ pc = "diag_thermal"
    /\ \E co \in ConnectOutcomes, o \in SendOutcomes, b \in ReplyBytes :
         LET x == Mk3SimpleQuery(co, o, b)
             resp == x.resp
             name == QueryName("thermal", -1)
             cost == Anomaly(co, o, b)
             parsed == resp.success /\ ThermalParsed(resp) # <<>>
             th == ThermalParsed(resp)[1]
         IN
         /\ diag.anomalies + cost <= MaxAnomalies
         /\ mk3_socket' = x.socket
         /\ diag' = [Logged(diag, name, resp, x.sent, 1, IF x.opened THEN 1 ELSE 0, cost)
                     EXCEPT
                       !.status.thermal_status = IF parsed THEN <<th>> ELSE @,
                       !.status.raw_responses =
                           IF parsed THEN Put(@, name, resp.raw_data) ELSE @,
                       !.status.has_any_fault =
                           FaultFlag(@, parsed /\ th.is_critical),
                       !.status.fault_summary =
                           IF parsed /\ th.is_critical THEN Append(@, "THERMAL CRITICAL")
                           ELSE IF parsed /\ th.is_warning
                                THEN Append(@, "THERMAL WARNING") ELSE @]
    /\ pc' = "diag_groups"
    /\ UNCHANGED <<runner_cancel, tester, workers, report, codec, ops, conn, cancel_flag, last, lastop, sendlog,
                   badio, count, delay_ms, i, result, response_times, hist, caller, find>>

\* ------------------------------- MK3ProtocolTester.query_all_group_status
\* range(min(num_groups, 8))
GroupCount(n) == IF n < 8 THEN n ELSE 8

\* Faulty variant of GroupQueries: the source is queried before the volume.
GroupQueries_SourceFirst == <<"source", "volume", "mute", "protect">>

\* The four queries of one group, in the order the loop body sends them.
GroupQueries == <<"volume", "mute", "source", "protect">>

\* query_all_group_status up to its loop: the connect and the early return of an
\* empty list when it fails.
DiagGroupsConnect ==
    /\ tester = "mk3" /\ pc = "diag_groups"
    /\ \E co \in ConnectOutcomes :
         LET c == Mk3Connect(co)
             cost == Anomaly(co, "reply", 0)
         IN
         /\ diag.anomalies + cost <= MaxAnomalies
         /\ mk3_socket' = c.socket
         /\ diag' = [diag EXCEPT
                       !.groups = <<>>, !.g = 0, !.q = 1, !.cur = NewGroupStatus(0),
                       !.failed = IF c.ok THEN @ ELSE @ \cup {"groups"},
                       !.connects = @ + 1,
                       !.opened = IF c.ok THEN @ + 1 ELSE @,
                       !.anomalies = @ + cost]
         /\ pc' = IF c.ok THEN "diag_group" ELSE "diag_collect"
    /\ UNCHANGED <<runner_cancel, tester, workers, report, codec, ops, conn, cancel_flag, last, lastop, sendlog,
                   badio, count, delay_ms, i, result, response_times, hist, caller, find>>

\* The MK3GroupStatus after the response to one of its four queries.
StoreGroup(gs, kind, resp) ==
    LET has == resp.success /\ resp.raw_data # <<>>
        raw == <<resp.raw_data>>
    IN IF ~resp.success THEN gs
       ELSE CASE kind = "volume" ->
                   [gs EXCEPT !.raw_volume = raw,
                              !.volume = IF has THEN <<resp.raw_data[1]>> ELSE @]
              [] kind = "mute" ->
                   [gs EXCEPT !.raw_mute = raw,
                              !.mute = IF has THEN <<resp.raw_data[1] = 1>> ELSE @]
              [] kind = "source" ->
                   [gs EXCEPT !.raw_source = raw,
                              !.source = IF has THEN <<resp.raw_data[1]>> ELSE @]
              [] OTHER ->
                   [gs EXCEPT !.raw_protect = raw,
                              !.protect_status =
                                  IF has THEN <<GroupProtectBits_decode(resp.raw_data[1])>>
                                  ELSE @]

\* One _send_command of the loop body of query_all_group_status; after the
\* fourth query of a group its MK3GroupStatus is appended.
DiagGroupQuery ==
    /\ tester = "mk3" /\ pc = "diag_group" /\ diag.g < GroupCount(diag.num_groups)
    /\ \E o \in SendOutcomes, b \in GroupReplyBytes :
         LET r == Mk3SendCommand(mk3_socket, o)
             resp == Mk3Response(r.res, b)
             kind == GroupQueries[diag.q]
             name == QueryName(kind, diag.g)
             cost == Anomaly("ok", o, b)
             gs == StoreGroup(IF diag.q = 1 THEN NewGroupStatus(diag.g) ELSE diag.cur,
                              kind, resp)
             done == diag.q = Len(GroupQueries)
         IN
         /\ diag.anomalies + cost <= MaxAnomalies
         /\ diag' = [Logged(diag, name, resp, r.wrote, 0, 0, cost) EXCEPT
                       !.cur = IF done THEN NewGroupStatus(0) ELSE gs,
                       !.groups = IF done THEN Append(@, gs) ELSE @,
                       !.g = IF done THEN @ + 1 ELSE @,
                       !.q = IF done THEN 1 ELSE @ + 1]
    /\ UNCHANGED <<runner_cancel, tester, workers, report, codec, ops, pc, conn, cancel_flag, last, lastop, sendlog,
                   badio, count, delay_ms, i, result, response_times, hist, caller,
                   mk3_socket, find>>

\* query_all_group_status after its loop: the finally clause and the return.
DiagGroupsFinish ==
    /\ tester = "mk3" /\ pc = "diag_group" /\ diag.g >= GroupCount(diag.num_groups)
    /\ mk3_socket' = Mk3Disconnect(mk3_socket)
    /\ pc' = "diag_collect"
    /\ UNCHANGED <<diag, runner_cancel, tester, workers, report, codec, ops, conn, cancel_flag, last, lastop,
                   sendlog, badio, count, delay_ms, i, result, response_times, hist,
                   caller, find>>

\* The raw bytes kept for one query of a group: "g.raw_volume or b''".
RawOf(gs, kind) ==
    LET raw == CASE kind = "volume" -> gs.raw_volume
                 [] kind = "mute" -> gs.raw_mute
                 [] kind = "source" -> gs.raw_source
                 [] OTHER -> gs.raw_protect
    IN IF raw = <<>> THEN <<>> ELSE raw[1]

\* The raw_responses entries run_full_diagnostic writes for the groups returned.
GroupRawResponses(gs) ==
    [k \in {QueryName(GroupQueries[n], gs[j].group_index) :
                n \in 1..Len(GroupQueries), j \in 1..Len(gs)} |->
        RawOf(gs[CHOOSE j \in 1..Len(gs) : gs[j].group_index = k.g], k.q)]

\* "if g.protect_status and g.protect_status.get('has_any_fault')"
GroupHasFault(gs) == gs.protect_status # <<>> /\ gs.protect_status[1].has_any_fault

\* The fault_summary line of one faulty group.
GroupFaultLine(gs) == Err("GROUP FAULT", gs.group_index, gs.protect_status[1].raw_value)

\* The fault_summary lines of the faulty groups, in group order.
GroupFaultSummary(gs) ==
    LET F == SelectSeq(gs, GroupHasFault) IN [j \in 1..Len(F) |-> GroupFaultLine(F[j])]

\* Faulty variant of AnyGroupFault: only the first group is looked at.
AnyGroupFault_FirstOnly(gs) == gs # <<>> /\ GroupHasFault(gs[1])

\* The loop over status.groups found a group whose protect status has a fault.
AnyGroupFault(gs) == \E j \in 1..Len(gs) : GroupHasFault(gs[j])

\* run_full_diagnostic after query_all_group_status has returned: the groups, their
\* raw responses and faults, and the return of the status.
DiagCollect ==
    /\ tester = "mk3" /\ pc = "diag_collect"
    /\ diag' = [diag EXCEPT
                  !.status.groups = diag.groups,
                  !.status.raw_responses = GroupRawResponses(diag.groups) @@ @,
                  !.status.has_any_fault =
                      FaultFlag(@, AnyGroupFault(diag.groups)),
                  !.status.fault_summary = @ \o GroupFaultSummary(diag.groups)]
    /\ pc' = "diag_done"
    /\ UNCHANGED <<runner_cancel, tester, workers, report, codec, ops, conn, cancel_flag, last, lastop, sendlog,
                   badio, count, delay_ms, i, result, response_times, hist, caller,
                   mk3_socket, find>>

\* ------------------------------------------------------- DiagnosticRunner
\* run_full_diagnostic is running on the worker thread.
DiagRunning ==
    pc \in {"diag_power", "diag_global", "diag_thermal", "diag_groups", "diag_group",
            "diag_collect"}

\* Another thread calls DiagnosticRunner.cancel while the MK3 protocol test is
\* running: the runner's flag and the cancel of the testers that have one.
RunnerCancel ==
    /\ tester = "mk3" /\ (DiagRunning \/ pc = "run_loop") /\ ~runner_cancel
    /\ diag.anomalies + 1 <= MaxAnomalies
    /\ runner_cancel' = TRUE
    /\ cancel_flag' = TRUE
    /\ diag' = [diag EXCEPT !.anomalies = @ + 1]
    /\ UNCHANGED <<tester, workers, report, codec, ops, pc, conn, last, lastop, sendlog, badio, count, delay_ms, i,
                   result, response_times, hist, caller, mk3_socket, find>>

\* ------------------------------------------------------- run_diagnostics
\* The tests run_diagnostics runs, in order.
RunnerTests ==
    <<"Network Reachability", "Port Scan", "HTTP Web Interface", "MK3 Control Protocol",
      "Hostname Resolution", "DNS Configuration", "Command Protocol (Legacy)">>

\* How a test ends: the status of the TestResult it returns, or ERROR when it
\* raised.
TestOutcomes == {"PASSED", "FAILED", "WARNING", "ERROR"}

\* The summary after a test of the given status: ERROR has no counter.
UpdateSummary(summary, status) ==
    CASE status = "PASSED" -> [summary EXCEPT !.passed = @ + 1]
      [] status = "FAILED" -> [summary EXCEPT !.failed = @ + 1]
      [] status = "WARNING" -> [summary EXCEPT !.warnings = @ + 1]
      [] status = "SKIPPED" -> [summary EXCEPT !.skipped = @ + 1]
      [] OTHER -> summary

\* overall_status from the counters.
OverallStatus(summary) ==
    IF summary.failed > 0 THEN "problems_detected"
    ELSE IF summary.warnings > 0 THEN "minor_issues"
    ELSE "healthy"

\* run_diagnostics starts: the cancel flags are reset and the report is created.
RunStart ==
    /\ tester = "mk3" /\ Idle /\ ops = 0
    /\ pc' = "run_loop"
    /\ runner_cancel' = FALSE
    /\ cancel_flag' = FALSE
    /\ report' = NewReport
    /\ UNCHANGED <<tester, workers, diag, codec, ops, conn, last, lastop, sendlog, badio, count, delay_ms, i,
                   result, response_times, hist, caller, mk3_socket, find>>

\* One iteration of the loop: the flag is clear, the next test runs and its result
\* (or the ERROR result made from its exception) is appended and counted.
RunTest ==
    /\ pc = "run_loop" /\ ~runner_cancel /\ Len(report.tests) < Len(RunnerTests)
    /\ \E status \in TestOutcomes :
         report' = [report EXCEPT
                      !.tests = Append(@, [name |-> RunnerTests[Len(report.tests) + 1],
                                           status |-> status]),
                      !.summary = UpdateSummary(@, status)]
    /\ UNCHANGED <<tester, workers, diag, runner_cancel, codec, ops, pc, conn, cancel_flag, last, lastop,
                   sendlog, badio, count, delay_ms, i, result, response_times, hist, caller,
                   mk3_socket, find>>

\* The loop is over (no test left, or the flag is set): overall_status is set
\* and the report returned.
RunFinish ==
    /\ pc = "run_loop" /\ (runner_cancel \/ Len(report.tests) = Len(RunnerTests))
    /\ pc' = "run_done"
    /\ report' = [report EXCEPT !.overall_status = OverallStatus(report.summary)]
    /\ UNCHANGED <<tester, workers, diag, runner_cancel, codec, ops, conn, cancel_flag, last, lastop,
                   sendlog, badio, count, delay_ms, i, result, response_times, hist, caller,
                   mk3_socket, find>>

\* ------------------------------- one MK3ProtocolTester, two worker threads
\* In these steps mk3_socket is None or the name of the socket self._socket
\* refers to; the socket's state is in workers.socks.
\* The operation of worker u is under way: it has created its socket and has not
\* returned.
InUse(u) == workers.th[u].pc \notin {"start", "done"}

\* The thread is at the given position.
At(w, p) == tester = "mk3" /\ pc = "idle" /\ workers.th[w].pc = p

\* The thread returns (or dies with an exception) with this outcome.
Returned(th, raised, success, error) ==
    [th EXCEPT !.pc = "done", !.raised = raised, !.success = success, !.error = error]

\* The thread has its MK3Response and goes on to the finally clause.
Responded(th, success, error, got) ==
    [th EXCEPT !.pc = "disc_check", !.success = success, !.error = error, !.got = got]

shared_unchanged ==
    UNCHANGED <<tester, report, diag, runner_cancel, codec, ops, pc, conn, cancel_flag, last,
                lastop, sendlog, badio, count, delay_ms, i, result, response_times, hist,
                caller, find>>

\* _connect, self._socket = socket.socket(...): the attribute now names the new
\* socket of this thread.
WCreate ==
    \E w \in Workers :
      /\ At(w, "start")
      /\ mk3_socket' = w
      /\ workers' = [workers EXCEPT
            !.th[w].pc = "settimeout",
            !.socks[w].state = "new",
            !.replaced = @ \/ (mk3_socket \in Workers \ {w} /\ InUse(mk3_socket))]
      /\ shared_unchanged

\* _connect, self._socket.settimeout(...): on None an AttributeError leaves
\* send_command_simple, on a closed socket the OSError is returned as an error.
WSetTimeout ==
    \E w \in Workers :
      /\ At(w, "settimeout")
      /\ workers' = [workers EXCEPT !.th[w] =
            IF mk3_socket = None THEN Returned(@, TRUE, FALSE, "AttributeError")
            ELSE IF workers.socks[mk3_socket].state = "closed"
                 THEN Returned(@, FALSE, FALSE, "Connection error")
            ELSE [@ EXCEPT !.pc = "connect"]]
      /\ UNCHANGED mk3_socket
      /\ shared_unchanged

\* _connect, self._socket.connect(...): a new socket connects or is refused; a
\* socket that is connected already or closed gives an OSError.
WConnect ==
    \E w \in Workers, o \in {"ok", "refused"} :
      /\ At(w, "connect")
      /\ workers' =
            IF mk3_socket = None
            THEN [workers EXCEPT !.th[w] = Returned(@, TRUE, FALSE, "AttributeError")]
            ELSE IF workers.socks[mk3_socket].state # "new"
            THEN [workers EXCEPT !.th[w] = Returned(@, FALSE, FALSE, "Connection error")]
            ELSE IF o = "refused"
            THEN [workers EXCEPT !.th[w] = Returned(@, FALSE, FALSE, "Connection refused"),
                                 !.socks[mk3_socket].state = "failed"]
            ELSE [workers EXCEPT !.th[w].pc = "check",
                                 !.socks[mk3_socket].state = "open"]
      /\ UNCHANGED mk3_socket
      /\ shared_unchanged

\* _send_command, if not self._socket.
WCheck ==
    \E w \in Workers :
      /\ At(w, "check")
      /\ workers' = [workers EXCEPT !.th[w] =
            IF mk3_socket = None THEN Responded(@, FALSE, "Not connected", {})
            ELSE [@ EXCEPT !.pc = "sendall"]]
      /\ UNCHANGED mk3_socket
      /\ shared_unchanged

\* _send_command, self._socket.sendall(command): the command is written on the
\* socket the attribute names now; None and a socket that is not open raise.
WSendall ==
    \E w \in Workers :
      /\ At(w, "sendall")
      /\ workers' =
            IF mk3_socket = None
            THEN [workers EXCEPT !.th[w] = Responded(@, FALSE, "AttributeError", {})]
            ELSE IF workers.socks[mk3_socket].state # "open"
            THEN [workers EXCEPT !.th[w] = Responded(@, FALSE, "OSError", {})]
            ELSE [workers EXCEPT !.th[w].pc = "recv",
                                 !.socks[mk3_socket].pending = Append(@, w)]
      /\ UNCHANGED mk3_socket
      /\ shared_unchanged

\* _send_command, self._socket.recv(64): the replies the device has written on
\* the socket the attribute names now, in the order of the commands, or a
\* timeout.
WRecv ==
    \E w \in Workers, k \in 0..Cardinality(Workers) :
      /\ At(w, "recv")
      /\ workers' =
            IF mk3_socket = None
            THEN [workers EXCEPT !.th[w] = Responded(@, FALSE, "AttributeError", {})]
            ELSE IF workers.socks[mk3_socket].state # "open"
            THEN [workers EXCEPT !.th[w] = Responded(@, FALSE, "OSError", {})]
            ELSE LET pending == workers.socks[mk3_socket].pending
                     n == IF k <= Len(pending) THEN k ELSE Len(pending) IN
                 IF n = 0
                 THEN [workers EXCEPT !.th[w] = Responded(@, FALSE, "Response timeout", {})]
                 ELSE [workers EXCEPT
                         !.th[w] = Responded(@, TRUE, None, {pending[j] : j \in 1..n}),
                         !.socks[mk3_socket].pending = SubSeq(pending, n + 1, Len(pending))]
      /\ UNCHANGED mk3_socket
      /\ shared_unchanged

\* _disconnect, if self._socket.
WDiscCheck ==
    \E w \in Workers :
      /\ At(w, "disc_check")
      /\ workers' = [workers EXCEPT
            !.th[w].pc = IF mk3_socket = None THEN "done" ELSE "close"]
      /\ UNCHANGED mk3_socket
      /\ shared_unchanged

\* _disconnect, self._socket.close(): the socket the attribute names now is
\* closed; the AttributeError on None is swallowed.
WClose ==
    \E w \in Workers :
      /\ At(w, "close")
      /\ workers' =
            IF mk3_socket = None THEN [workers EXCEPT !.th[w].pc = "clear"]
            ELSE [workers EXCEPT
                    !.th[w].pc = "clear",
                    !.socks[mk3_socket].state = "closed",
                    !.closed_other = @ \/ (mk3_socket # w /\ InUse(mk3_socket))]
      /\ UNCHANGED mk3_socket
      /\ shared_unchanged

\* _disconnect, self._socket = None, and send_command_simple returns.
WClear ==
    \E w \in Workers :
      /\ At(w, "clear")
      /\ mk3_socket' = None
      /\ workers' = [workers EXCEPT
            !.th[w].pc = "done",
            !.cleared_other = @ \/ (mk3_socket \in Workers \ {w} /\ InUse(mk3_socket))]
      /\ shared_unchanged

\* ------------------------------------------ command builders and volume codec
\* Every variable but codec.
session_vars ==
    <<tester, workers, report, ops, pc, conn, cancel_flag, last, lastop, sendlog, badio, count, delay_ms, i,
      result, response_times, hist, caller, mk3_socket, find, diag, runner_cancel>>

\* The group and channel indices a caller passes: 0 .. MaxIndex, one below the
\* range and the two values around the largest byte.
IndexInputs == (-1..MaxIndex) \cup {255, 256}

\* The volume levels a caller passes: the range -70..0 and MaxDbExcess beyond it.
DbInputs == (-70 - MaxDbExcess)..MaxDbExcess

\* HEADER = bytes([0xFF, 0x55])
HEADER == <<255, 85>>

\* GroupCmd and the per-group codes of QueryCmd (mk3_commands.py).
GroupCmdCodes == (4..15) \cup {101, 102, 103} \cup {16, 17, 18}

\* PowerCmd and GlobalCmd.
GlobalCmdCodes == {1, 2, 3, 112} \cup (4..15) \cup {101, 102, 103}

\* The per-channel codes of QueryCmd.
ChannelCmdCodes == {22, 23, 24}

\* The values of MK3Command (mk3_protocol.py): power, volume and mute, input
\* selection, and the global protect and thermal queries.
MK3CommandValues ==
    {<<255, 85, 1, c>> : c \in {1, 2, 3, 112} \cup (4..12) \cup {113, 114}}

\* The fourth byte of the values of MK3GroupCommand (mk3_protocol.py).
MK3GroupCommandCodes == (4..15) \cup {101, 102, 103} \cup {16, 17, 18, 19}

\* bytes([...]): ValueError unless every element is in range(256).
PyBytes(xs) ==
    IF \A k \in 1..Len(xs) : xs[k] \in 0..255
    THEN [raised |-> FALSE, bytes |-> xs]
    ELSE [raised |-> TRUE, bytes |-> <<>>]

\* HEADER + bytes([...])
WithHeader(b) == [raised |-> b.raised, bytes |-> IF b.raised THEN <<>> ELSE HEADER \o b.bytes]

\* MK3CommandBuilder._build_global
build_global(cmd) == WithHeader(PyBytes(<<1, cmd>>))

\* Faulty variant of build_group: the group index is put before the command code.
build_group_IndexFirst(cmd, group) == WithHeader(PyBytes(<<2, group, cmd>>))

\* MK3CommandBuilder._build_group
build_group(cmd, group) == WithHeader(PyBytes(<<2, cmd, group>>))

\* MK3CommandBuilder._build_channel
build_channel(cmd, channel) == WithHeader(PyBytes(<<2, cmd, channel>>))

\* volume_db_to_hex: 0x71 + (db + 70) after the clamp to -70..0.
volume_db_to_hex(db) ==
    LET d == IF db < -70 THEN -70 ELSE IF db > 0 THEN 0 ELSE db
    IN 113 + (d + 70)

\* Faulty variant of volume_hex_to_db: the offset of the byte is one too large.
volume_hex_to_db_OffByOne(hex_val) == (hex_val - 114) - 70

\* volume_hex_to_db
volume_hex_to_db(hex_val) == (hex_val - 113) - 70

\* A builder, codec or decoder call may start: nothing else has been called.
CodecIdle == Idle /\ ops = 0 /\ codec.fn = None

\* A per-group builder of MK3CommandBuilder is called (group_power_on ...
\* query_group_mute, group_volume_set): _build_group with its code and the group.
BuildGroup ==
    /\ CodecIdle
    /\ \E cmd \in GroupCmdCodes \cup {volume_db_to_hex(db) : db \in DbInputs},
          group \in IndexInputs :
         LET b == build_group(cmd, group) IN
         codec' = [CodecCall("build_group", cmd, group, 0, 0) EXCEPT
                     !.raised = b.raised, !.bytes = b.bytes]
    /\ UNCHANGED session_vars

\* A per-channel builder of MK3CommandBuilder is called.
BuildChannel ==
    /\ CodecIdle
    /\ \E cmd \in ChannelCmdCodes, channel \in IndexInputs :
         LET b == build_channel(cmd, channel) IN
         codec' = [CodecCall("build_channel", cmd, channel, 0, 0) EXCEPT
                     !.raised = b.raised, !.bytes = b.bytes]
    /\ UNCHANGED session_vars

\* A global builder of MK3CommandBuilder is called (power_on ...
\* global_group_power_off): _build_global with its code.
BuildGlobal ==
    /\ CodecIdle
    /\ \E cmd \in GlobalCmdCodes :
         LET b == build_global(cmd) IN
         codec' = [CodecCall("build_global", cmd, 0, 0, 0) EXCEPT
                     !.raised = b.raised, !.bytes = b.bytes]
    /\ UNCHANGED session_vars

\* MK3CommandBuilder.global_volume_set
GlobalVolumeSet ==
    /\ CodecIdle
    /\ \E db \in DbInputs :
         LET vol_cmd == volume_db_to_hex(db)
             b == build_global(vol_cmd)
         IN codec' = [CodecCall("global_volume_set", vol_cmd, 0, db, 0) EXCEPT
                        !.raised = b.raised, !.bytes = b.bytes, !.hex = vol_cmd]
    /\ UNCHANGED session_vars

\* volume_db_to_hex and volume_hex_to_db of its result.
VolumeCodec ==
    /\ CodecIdle
    /\ \E db \in DbInputs :
         codec' = [CodecCall("volume", 0, 0, db, 0) EXCEPT
                     !.hex = volume_db_to_hex(db),
                     !.back = volume_hex_to_db(volume_db_to_hex(db))]
    /\ UNCHANGED session_vars

\* GlobalProtectBits.decode of a status byte.
DecodeGlobal ==
    /\ CodecIdle
    /\ \E b \in 0..255 :
         codec' = [CodecCall("decode_global", 0, 0, 0, b) EXCEPT
                     !.flags = <<GlobalProtectBits_decode(b)>>]
    /\ UNCHANGED session_vars

\* GroupProtectBits.decode of a status byte.
DecodeGroup ==
    /\ CodecIdle
    /\ \E b \in 0..255 :
         codec' = [CodecCall("decode_group", 0, 0, 0, b) EXCEPT
                     !.flags = <<GroupProtectBits_decode(b)>>]
    /\ UNCHANGED session_vars

\* A send operation that builds its command from arguments: when bytes() raises
\* nothing is sent, otherwise the command goes to send_command_simple and is
\* written when the connect worked.
DirectSend(call, b) ==
    IF b.raised
    THEN /\ codec' = [call EXCEPT !.raised = TRUE]
         /\ UNCHANGED session_vars
    ELSE /\ SendCommandSimple
         /\ codec' = [call EXCEPT !.bytes = b.bytes, !.sent = (mk3_socket' = None)]

\* MK3ProtocolTester.send_group_command
SendGroupCommand ==
    /\ tester = "mk3" /\ CodecIdle
    /\ \E code \in MK3GroupCommandCodes, group \in IndexInputs :
         LET g == PyBytes(<<group>>) IN
         DirectSend(CodecCall("send_group_command", code, group, 0, 0),
                    [raised |-> g.raised, bytes |-> <<255, 85, 2, code>> \o g.bytes])

\* MK3ProtocolTester.query_channel_short_protect, up to the parsing of the reply.
QueryChannelShortProtect ==
    /\ tester = "mk3" /\ CodecIdle
    /\ \E channel \in IndexInputs :
         LET c == PyBytes(<<channel>>) IN
         DirectSend(CodecCall("query_channel_short_protect", 23, channel, 0, 0),
                    [raised |-> c.raised, bytes |-> <<255, 85, 2, 23>> \o c.bytes])

\* "db = max(-70, min(0, db)); vol_byte = 0x71 + (db + 70)"
DirectVolByte(db) ==
    LET lo == IF 0 < db THEN 0 ELSE db
        d == IF -70 > lo THEN -70 ELSE lo
    IN 113 + (d + 70)

\* MK3ProtocolTester.set_group_volume_direct
SetGroupVolumeDirect ==
    /\ tester = "mk3" /\ CodecIdle
    /\ \E group \in IndexInputs, db \in DbInputs :
         DirectSend([CodecCall("set_group_volume_direct", DirectVolByte(db), group, db, 0)
                       EXCEPT !.hex = DirectVolByte(db)],
                    PyBytes(<<255, 85, 2, DirectVolByte(db), group>>))

\* MK3ProtocolTester.set_global_volume_direct
SetGlobalVolumeDirect ==
    /\ tester = "mk3" /\ CodecIdle
    /\ \E db \in DbInputs :
         DirectSend([CodecCall("set_global_volume_direct", DirectVolByte(db), 0, db, 0)
                       EXCEPT !.hex = DirectVolByte(db)],
                    PyBytes(<<255, 85, 1, DirectVolByte(db)>>))

\* ------------------------------------------------------ MK3ResponseParser
\* A Python str is modelled as the sequence of its characters.
\* The characters str.strip and str.split() take for white space.
Whitespace == {" "}

\* str.lower, one character.
LowerChar(c) ==
    LET upper ==
         <<"A", "B", "C", "D", "E", "F", "G", "H", "I", "J", "K", "L", "M",
         "N", "O", "P", "Q", "R", "S", "T", "U", "V", "W", "X", "Y", "Z">>
        lower ==
         <<"a", "b", "c", "d", "e", "f", "g", "h", "i", "j", "k", "l", "m",
         "n", "o", "p", "q", "r", "s", "t", "u", "v", "w", "x", "y", "z">>
    IN  IF \E k \in 1..Len(upper) : upper[k] = c
        THEN lower[CHOOSE k \in 1..Len(upper) : upper[k] = c]
        ELSE c

\* str.lower
Lower(s) == [k \in 1..Len(s) |-> LowerChar(s[k])]

\* str.find + 1: the first position where p occurs in s, 0 when it does not.
Find(s, p) ==
    LET hits == {k \in 1..(Len(s) - Len(p) + 1) : SubSeq(s, k, k + Len(p) - 1) = p} IN
    IF hits = {} THEN 0 ELSE CHOOSE k \in hits : \A j \in hits : k <= j

\* p in s
Contains(s, p) == Find(s, p) # 0

\* s.split(sep): the pieces of s between the occurrences of sep.
RECURSIVE Split(_, _)
Split(s, sep) ==
    LET k == Find(s, sep) IN
    IF k = 0 THEN <<s>>
    ELSE <<SubSeq(s, 1, k - 1)>> \o Split(SubSeq(s, k + Len(sep), Len(s)), sep)

\* s.lstrip()
RECURSIVE LStrip(_)
LStrip(s) == IF s # <<>> /\ Head(s) \in Whitespace THEN LStrip(Tail(s)) ELSE s

\* s.rstrip()
RECURSIVE RStrip(_)
RStrip(s) ==
    IF s # <<>> /\ s[Len(s)] \in Whitespace THEN RStrip(SubSeq(s, 1, Len(s) - 1)) ELSE s

\* s.strip()
Strip(s) == RStrip(LStrip(s))

\* s.split(): the words of s, separated by runs of white space.
RECURSIVE SplitWords(_)
SplitWords(s) ==
    LET t == LStrip(s)
        ws == {k \in 1..Len(t) : t[k] \in Whitespace}
        e == IF ws = {} THEN Len(t) + 1 ELSE CHOOSE k \in ws : \A j \in ws : k <= j IN
    IF t = <<>> THEN <<>>
    ELSE <<SubSeq(t, 1, e - 1)>> \o SplitWords(SubSeq(t, e, Len(t)))

\* The markers and words parse looks for.
Mark ==
    [power_status |-> <<"P", "o", "w", "e", "r", " ", "s", "t", "a", "t", "u", "s">>,
     on |-> <<":", "O", "n">>,
     on_spaced |-> <<":", " ", "O", "n">>,
     volume |-> <<"C", "m", "d", ":", "V", "o", "l", "u", "m", "e">>,
     group |-> <<"G", "r", "o", "u", "p", ":">>,
     vol |-> <<"V", "o", "l", "=">>,
     mute_state |-> <<"M", "u", "t", "e", "S", "t", "a", "t", "e">>,
     mute_on |-> <<"M", "u", "t", "e", "=", "o", "n">>,
     source |-> <<"C", "m", "d", ":", "S", "o", "u", "r", "c", "e">>,
     src1 |-> <<"S", "r", "c", "1", "=">>,
     short_cir |-> <<"A", "m", "p", "S", "h", "o", "r", "t", "C", "i", "r">>,
     channel |-> <<"C", "h", "a", "n", "n", "e", "l", " ", "O", "u", "t", "p", "u", "t">>,
     short |-> <<"s", "h", "o", "r", "t">>,
     no_short |-> <<"n", "o", " ", "s", "h", "o", "r", "t">>,
     over_temp |-> <<"A", "m", "p", "O", "v", "e", "r", "T", "e", "m", "p">>,
     over_temp_spaced |-> <<"o", "v", "e", "r", " ", "t", "e", "m", "p">>,
     overtemp |-> <<"o", "v", "e", "r", "t", "e", "m", "p">>,
     normal |-> <<"n", "o", "r", "m", "a", "l">>,
     preset |-> <<"D", "S", "P", "_", "P", "r", "e", "s", "e", "t">>,
     colon |-> <<":">>,
     comma |-> <<",">>]

\* MK3Response(raw, command_type, success, value, group, channel, error); raised:
\* an exception left parse instead.
ParsedResponse(raw, command_type, success, value, group, channel, error) ==
    [raised |-> FALSE, raw |-> raw, command_type |-> command_type, success |-> success,
     value |-> value, group |-> group, channel |-> channel, error |-> error]

\* The except clause of a branch: success false and the message of the exception.
ParseFailed(raw, command_type, error) ==
    ParsedResponse(raw, command_type, FALSE, <<>>, <<>>, <<>>, error)

\* The group letter of a response: the character after "Group:". ok is false
\* when nothing follows the marker (group_part[0] raises IndexError).
ParseGroup(r) ==
    IF ~Contains(r, Mark.group) THEN [ok |-> TRUE, group |-> <<>>]
    ELSE LET group_part == Split(r, Mark.group)[2] IN
         IF group_part = <<>> THEN [ok |-> FALSE, group |-> <<>>]
         ELSE [ok |-> TRUE, group |-> <<<<group_part[1]>>>>]

\* The channel of a response: the text after "Channel Output", stripped.
ParseChannel(r) ==
    IF Contains(r, Mark.channel) THEN <<Strip(Split(r, Mark.channel)[2])>> ELSE <<>>

\* MK3ResponseParser.parse
parse(response) ==
    LET r == Strip(response) IN
    IF Contains(r, Mark.power_status)
    THEN ParsedResponse(r, "power_status", TRUE,
                        <<IF Contains(r, Mark.on) \/ Contains(r, Mark.on_spaced)
                          THEN <<"O", "n">> ELSE <<"O", "f", "f">>>>,
                        <<>>, <<>>, None)
    ELSE IF Contains(r, Mark.volume)
    THEN LET g == ParseGroup(r)
             words == IF Contains(r, Mark.vol) THEN SplitWords(Split(r, Mark.vol)[2])
                      ELSE <<>> IN
         IF ~g.ok THEN ParseFailed(r, "volume", "string index out of range")
         ELSE IF Contains(r, Mark.vol) /\ words = <<>>
         THEN ParseFailed(r, "volume", "list index out of range")
         ELSE ParsedResponse(r, "volume", TRUE,
                             IF Contains(r, Mark.vol) THEN <<words[1]>> ELSE <<>>,
                             g.group, <<>>, None)
    ELSE IF Contains(r, Mark.mute_state)
    THEN LET g == ParseGroup(r) IN
         IF ~g.ok THEN ParseFailed(r, "mute_state", "string index out of range")
         ELSE ParsedResponse(r, "mute_state", TRUE,
                             <<IF Contains(Lower(r), Mark.mute_on)
                               THEN <<"o", "n">> ELSE <<"o", "f", "f">>>>,
                             g.group, <<>>, None)
    ELSE IF Contains(r, Mark.source)
    THEN LET g == ParseGroup(r) IN
         IF ~g.ok THEN ParseFailed(r, "source", "string index out of range")
         ELSE ParsedResponse(r, "source", TRUE,
                             IF Contains(r, Mark.src1) THEN <<Strip(Split(r, Mark.src1)[2])>>
                             ELSE <<>>,
                             g.group, <<>>, None)
    ELSE IF Contains(r, Mark.short_cir)
    THEN ParsedResponse(r, "short_protect", TRUE,
                        <<IF Contains(Lower(r), Mark.short) /\ ~Contains(Lower(r), Mark.no_short)
                          THEN "Short detected" ELSE "No short">>,
                        <<>>, ParseChannel(r), None)
    ELSE IF Contains(r, Mark.over_temp)
    THEN ParsedResponse(r, "overtemp", TRUE,
                        <<IF Contains(Lower(r), Mark.normal) THEN "Normal"
                          ELSE IF Contains(Lower(r), Mark.over_temp_spaced)
                                  \/ Contains(Lower(r), Mark.overtemp)
                          THEN "Over Temp" ELSE "Unknown">>,
                        <<>>, ParseChannel(r), None)
    ELSE IF Contains(r, Mark.preset)
    THEN ParsedResponse(r, "dsp_preset", TRUE,
                        IF Contains(r, Mark.colon)
                        THEN <<Strip(Split(Split(r, Mark.colon)[2], Mark.comma)[1])>> ELSE <<>>,
                        <<>>, ParseChannel(r), None)
    ELSE ParsedResponse(r, "unknown", TRUE, <<r>>, <<>>, <<>>, None)

\* The response lines the amplifier sends, one per format.
ResponseFormats ==
    {
     \* "Power status :On"
     <<"P", "o", "w", "e", "r", " ", "s", "t", "a", "t", "u", "s", " ", ":", "O", "n">>,
     \* "Power status :Off"
     <<"P", "o", "w", "e", "r", " ", "s", "t", "a", "t", "u", "s", " ", ":", "O", "f",
       "f">>,
     \* "Cmd:Volume,Group:A Vol=-30 d"
     <<"C", "m", "d", ":", "V", "o", "l", "u", "m", "e", ",", "G", "r", "o", "u", "p",
       ":", "A", " ", "V", "o", "l", "=", "-", "3", "0", " ", "d">>,
     \* "Cmd:Source1,Group:A Src1=Input 1L"
     <<"C", "m", "d", ":", "S", "o", "u", "r", "c", "e", "1", ",", "G", "r", "o", "u",
       "p", ":", "A", " ", "S", "r", "c", "1", "=", "I", "n", "p", "u", "t", " ", "1",
       "L">>,
     \* "Cmd:MuteState,Group:A Mute=off"
     <<"C", "m", "d", ":", "M", "u", "t", "e", "S", "t", "a", "t", "e", ",", "G", "r",
       "o", "u", "p", ":", "A", " ", "M", "u", "t", "e", "=", "o", "f", "f">>,
     \* "Cmd:DSP_Preset:FLAT,Channel Output 1L"
     <<"C", "m", "d", ":", "D", "S", "P", "_", "P", "r", "e", "s", "e", "t", ":", "F",
       "L", "A", "T", ",", "C", "h", "a", "n", "n", "e", "l", " ", "O", "u", "t", "p",
       "u", "t", " ", "1", "L">>,
     \* "Cmd:AmpShortCir:No short,Channel Output 1L"
     <<"C", "m", "d", ":", "A", "m", "p", "S", "h", "o", "r", "t", "C", "i", "r", ":",
       "N", "o", " ", "s", "h", "o", "r", "t", ",", "C", "h", "a", "n", "n", "e", "l",
       " ", "O", "u", "t", "p", "u", "t", " ", "1", "L">>,
     \* "Cmd:AmpOverTemp:Normal Temp,Channel Output 1L"
     <<"C", "m", "d", ":", "A", "m", "p", "O", "v", "e", "r", "T", "e", "m", "p", ":",
       "N", "o", "r", "m", "a", "l", " ", "T", "e", "m", "p", ",", "C", "h", "a", "n",
       "n", "e", "l", " ", "O", "u", "t", "p", "u", "t", " ", "1", "L">>}

\* The texts handed to parse: every piece of a response line, that is the whole
\* line and the line cut short at either end.
ParseInputs ==
    UNION {{SubSeq(line, m, n) : m \in 1..(Len(line) + 1), n \in 0..Len(line)} :
           line \in ResponseFormats}

\* MK3ResponseParser.parse is called on a received text.
Parse ==
    /\ CodecIdle
    /\ \E response \in ParseInputs :
         codec' = [fn |-> "parse", response |-> response, out |-> parse(response)]
    /\ UNCHANGED session_vars

Next ==
    \/ Connect
    \/ Send
    \/ Disconnect
    \/ Cancel
    \/ BurstStart
    \/ BurstIter
    \/ BurstFinish
    \/ Mk3SendCommandSimple
    \/ Mk3TestConnectivity
    \/ Mk3DisconnectOp
    \/ Mk3BurstStart
    \/ Mk3BurstIter
    \/ Mk3BurstFinish

Spec == Init /\ [][Next]_vars

\* The delay search on its own: one find_optimal_delay per behaviour.
InitDelay == Init /\ tester = "cmd"

NextDelay ==
    \/ FindStart
    \/ FindIter
    \/ FindBurst
    \/ BurstIter
    \/ BurstFinish
    \/ FindRecord
    \/ FindFinish
    \/ Cancel

SpecDelay == InitDelay /\ [][NextDelay]_vars

\* The MK3 protocol test of the diagnostic runner: one run_full_diagnostic per
\* behaviour, and a cancel from another thread.
InitDiag == Init /\ tester = "mk3"

NextDiag ==
    \/ DiagStart
    \/ DiagPower
    \/ DiagGlobalProtect
    \/ DiagThermal
    \/ DiagGroupsConnect
    \/ DiagGroupQuery
    \/ DiagGroupsFinish
    \/ DiagCollect
    \/ RunnerCancel

SpecDiag == InitDiag /\ [][NextDiag]_vars

\* The diagnostic runner: one run_diagnostics per behaviour, and a cancel from
\* another thread.
InitRunner == Init /\ tester = "mk3"

NextRunner ==
    \/ RunStart
    \/ RunTest
    \/ RunFinish
    \/ RunnerCancel

SpecRunner == InitRunner /\ [][NextRunner]_vars

\* Two control-panel actions at once: each worker thread runs one
\* send_command_simple on the one MK3ProtocolTester, interleaved statement by
\* statement.
InitShared == Init /\ tester = "mk3"

NextShared ==
    \/ WCreate
    \/ WSetTimeout
    \/ WConnect
    \/ WCheck
    \/ WSendall
    \/ WRecv
    \/ WDiscCheck
    \/ WClose
    \/ WClear

SpecShared == InitShared /\ [][NextShared]_vars

\* The command builders, the volume codec, the bit decoders and the direct send
\* operations: one call per behaviour.
InitCodec == Init /\ tester = "mk3"

NextCodec ==
    \/ BuildGroup
    \/ BuildChannel
    \/ BuildGlobal
    \/ GlobalVolumeSet
    \/ VolumeCodec
    \/ DecodeGlobal
    \/ DecodeGroup
    \/ SendGroupCommand
    \/ QueryChannelShortProtect
    \/ SetGroupVolumeDirect
    \/ SetGlobalVolumeDirect
    \/ Parse

SpecCodec == InitCodec /\ [][NextCodec]_vars

\* ================================================================ claims
\* A burst test has returned its result to the caller.
BurstReturned == pc = "burst_done"

\* C1: every uncancelled CommandTester.burst_test of `count` commands returns
\* successful + failed = total = count and error rate = failed / count * 100,
\* whatever the device does.
C1_CountsAddUp ==
    (tester = "cmd" /\ BurstReturned /\ ~hist.cancelled) =>
        /\ result.successful + result.failed = result.total
        /\ result.total = count
        /\ (count > 0 => RateEq(result.error_rate, Rate(result.failed * 100, count)))

\* C2: within one CommandTester.burst_test at most one automatic reconnect is
\* attempted, however often the connection is lost.
C2_AtMostOneReconnect ==
    tester = "cmd" => hist.reconnects <= 1

\* C3: when the initial connect of a burst test fails (either tester), no command
\* is sent and the result has failed = count, successful = 0, error rate 100 and
\* exactly one error entry, which describes the connection failure.
C3_ConnectFailure ==
    (BurstReturned /\ ~hist.connect_ok) =>
        /\ hist.sent = 0
        /\ result.failed = count
        /\ result.successful = 0
        /\ result.total = count
        /\ result.error_rate = Rate(100, 1)
        /\ Len(result.errors) = 1
        /\ result.errors[1].kind \in {"Failed to connect", "Connection failed"}
        /\ result.errors[1].detail # None

C3_Witness ==
    /\ BurstReturned /\ ~hist.connect_ok /\ count = 2
    /\ tester = "cmd" /\ result.errors[1].detail = "Connection refused"

\* Every one of the `count` sends of the finished burst got a reply (data arrived).
AllReplied == hist.connect_ok /\ hist.sent = count /\ hist.replies = count

\* All commands counted as successful, with one latency sample each.
AllSucceeded ==
    /\ result.successful = count
    /\ result.failed = 0
    /\ RateEq(result.error_rate, Rate(0, 1))
    /\ response_times = count
    /\ result.errors = <<>>

SmallestPassing(f) ==
    LET P == {f.tests[k].delay_ms : k \in {j \in 1..Len(f.tests) :
                  Acceptable(f.tests[j].error_rate, f.threshold)}}
    IN IF P = {} THEN NoDelay ELSE CHOOSE m \in P : \A x \in P : m <= x

\* C5: an uncancelled find_optimal_delay returns as recommended_delay_ms the
\* smallest candidate delay whose burst error rate is within the threshold, and
\* None when no candidate's is.
C5_RecommendsSmallestPassing ==
    (pc = "find_done" /\ ~find.cancelled) =>
        find.recommended_delay_ms = SmallestPassing(find)

ZeroPassed(f) ==
    \E k \in 1..Len(f.tests) :
        f.tests[k].delay_ms = 0 /\ Acceptable(f.tests[k].error_rate, f.threshold)

\* C7: find_optimal_delay sets all_passed = true and recommended_delay_ms = 0
\* exactly when a candidate delay of 0 ms was tested and passed; when the list
\* holds no 0, all_passed stays false and the recommendation is a tested delay.
C7_ZeroOnlyWhenZeroPassed ==
    pc = "find_done" =>
        /\ (find.all_passed /\ find.recommended_delay_ms = 0) <=> ZeroPassed(find)
        /\ (\A k \in 1..Len(find.delays) : find.delays[k] # 0) =>
              /\ ~find.all_passed
              /\ find.recommended_delay_ms # 0
              /\ find.recommended_delay_ms \in
                     {NoDelay} \cup {find.tests[k].delay_ms : k \in 1..Len(find.tests)}

\* C8: whenever a send ends in a read timeout or a socket error, the session is
\* disconnected when the send returns and the result is a failure with an error.
C8_FailedSendDisconnects ==
    (sendlog.wrote /\ sendlog.outcome \in {"recv_timeout", "send_timeout", "socket_error"}) =>
        /\ ~sendlog.connected_after
        /\ ~sendlog.success
        /\ sendlog.error # None

\* C9: no command bytes are written to a session that is not connected; a send
\* issued before any connect, after a failed connect or after disconnect returns
\* a failed 'Not connected' result without socket I/O.
C9_NoSendWhileDisconnected ==
    /\ ~badio
    /\ (lastop.op = "send" /\ ~(lastop.sock /\ lastop.is_connected)) =>
          /\ ~sendlog.wrote
          /\ ~last.success
          /\ last.error = "Not connected"

C9_Witness ==
    /\ lastop.op = "send" /\ lastop.last_error = "Connection refused"
    /\ ~sendlog.wrote /\ last.error = "Not connected"

\* C10: disconnect is idempotent and safe from any session state: afterwards the
\* session is disconnected and holds no socket, and a second call changes nothing.
C10_DisconnectIdempotent ==
    lastop.op = "disconnect" =>
        IF tester = "cmd"
        THEN /\ ~conn.sock /\ ~conn.is_connected
             /\ CmdDisconnect(conn) = conn
             /\ (~lastop.sock => conn = [sock |-> lastop.sock,
                                          is_connected |-> lastop.is_connected,
                                          last_error |-> lastop.last_error])
        ELSE /\ mk3_socket = None
             /\ Mk3Disconnect(mk3_socket) = mk3_socket

C10_Witness ==
    /\ tester = "cmd" /\ lastop.op = "disconnect"
    /\ lastop.sock /\ ~lastop.is_connected
    /\ ~conn.sock

\* C11: within one session of a burst test at most one command is outstanding:
\* no command is written while the reply to an earlier command of the session has
\* not been received, and no response recorded for a command is the late reply to
\* an earlier one.
C11_NoPipelining ==
    ~hist.pipelined /\ ~hist.late

\* C12: once cancel() has been called while CommandTester.burst_test is iterating,
\* no further command is sent, and the burst returns with the connection closed
\* and a result that counts exactly the commands executed.
C12_CancelStopsBurst ==
    (tester = "cmd" /\ hist.cancelled /\ caller = "user"
       /\ pc \in {"burst_loop", "burst_break", "burst_done"}) =>
        /\ hist.sent = hist.sent_at_cancel
        /\ (pc = "burst_done" =>
              /\ ~conn.sock /\ ~conn.is_connected
              /\ result.successful + result.failed = Len(result.individual_results)
              /\ hist.sent = Len(result.individual_results)
              /\ Len(result.individual_results) <= count
              /\ result.total = count
              /\ RateEq(result.error_rate, Rate(result.failed * 100, count)))

C12_Witness ==
    /\ tester = "cmd" /\ hist.cancelled /\ pc = "burst_done"
    /\ count = 2 /\ Len(result.individual_results) = 1 /\ hist.sent = 1
    /\ result.successful = 1

\* C13: after DiagnosticRunner.cancel() has been called while the MK3 protocol
\* test is running, run_full_diagnostic issues no further query: it stops at the
\* next iteration boundary and returns what it has gathered.
C13_CancelStopsDiagnostic ==
    ~diag.after_cancel

\* C14: when the connectivity probe of run_full_diagnostic fails, the function
\* returns at once with is_reachable = false and a non-empty errors list; no status
\* query is sent and no further connect is attempted.
C14_ProbeFailureReturnsAtOnce ==
    /\ (DiagRunning => diag.status.is_reachable)
    /\ (pc = "diag_done" /\ ~diag.status.is_reachable) =>
          /\ diag.status.errors # <<>>
          /\ diag.status.errors[1].kind = "Connection failed"
          /\ diag.qlog = <<>>
          /\ diag.connects = 1
          /\ diag.opened = 0
          /\ diag.status.groups = <<>>
          /\ DOMAIN diag.status.raw_responses = {}

C14_Witness ==
    /\ pc = "diag_done" /\ ~diag.status.is_reachable /\ diag.num_groups = 2
    /\ diag.status.errors = <<Err("Connection failed", 0, "Connection refused")>>

\* C15: after a successful probe run_full_diagnostic sends all of its status
\* queries over one persistent session: exactly one connection is opened for the
\* queries.
C15_OnePersistentSession ==
    /\ diag.opened <= 1
    /\ (pc = "diag_done" /\ diag.status.is_reachable /\ diag.anomalies = 0) => diag.opened = 1

\* The place of a query in the fixed order: power, global fault, thermal, then for
\* each group in ascending order volume, mute, source, group fault.
Rank(n) ==
    IF n.g = -1
    THEN CASE n.q = "power" -> 0
           [] n.q = "global_protect" -> 1
           [] OTHER -> 2
    ELSE 3 + 4 * n.g + CASE n.q = "volume" -> 0
                         [] n.q = "mute" -> 1
                         [] n.q = "source" -> 2
                         [] OTHER -> 3

\* C16: run_full_diagnostic issues its queries in the fixed order: power, global
\* fault, thermal, then for group 0, 1, ..., groupCount-1 in ascending order the
\* queries volume, mute, source, group fault; on a device that accepts every
\* connect all of them are issued.
C16_FixedQueryOrder ==
    /\ \A a, b \in 1..Len(diag.qlog) : a < b => Rank(diag.qlog[a]) < Rank(diag.qlog[b])
    /\ \A a \in 1..Len(diag.qlog) :
          /\ diag.qlog[a].g < GroupCount(diag.num_groups)
          /\ diag.qlog[a].q \in {"power", "global_protect", "thermal", "volume", "mute",
                                 "source", "protect"}
    /\ (pc = "diag_done" /\ diag.opened = 4) =>
          Len(diag.qlog) = 3 + 4 * GroupCount(diag.num_groups)

C16_Witness ==
    /\ pc = "diag_done" /\ diag.num_groups = 2 /\ Len(diag.qlog) = 11
    /\ diag.qlog[4] = QueryName("volume", 0) /\ diag.qlog[11] = QueryName("protect", 1)

\* C17: on a reachable device run_full_diagnostic queries short-circuit,
\* over-temperature and DSP preset for every channel after the group queries, and
\* the returned status holds one ChannelStatus per physical leg (2 x group count).
C17_ChannelsQueried ==
    (pc = "diag_done" /\ diag.status.is_reachable) =>
        Len(diag.status.channels) = 2 * GroupCount(diag.num_groups)

\* C18: when send_command_simple, query_all_group_status or run_full_diagnostic
\* has returned, on every path, the tester holds no socket.
C18_NoSocketAfterReturn ==
    pc \in {"diag_global", "diag_thermal", "diag_groups", "diag_collect", "diag_done"} =>
        mk3_socket = None

\* C19: for every query of run_full_diagnostic whose round trip succeeded, the
\* bytes received (an empty payload included) are stored in raw_responses under
\* that query's name.
C19_RawResponsesKept ==
    pc = "diag_done" =>
        \A n \in DOMAIN diag.received :
            /\ n \in DOMAIN diag.status.raw_responses
            /\ diag.status.raw_responses[n] = diag.received[n]

\* C20: in the status run_full_diagnostic returns, has_any_fault is true exactly
\* when the global fault status has a fault, the thermal state is warning or
\* critical, some group's fault bits report a fault, or some channel reports a
\* short or an over-temperature.
C20_HasAnyFaultIsOr ==
    pc = "diag_done" =>
        (diag.status.has_any_fault <=>
            \/ (diag.status.global_protect # <<>>
                  /\ diag.status.global_protect[1].has_any_fault)
            \/ (diag.status.thermal_status # <<>>
                  /\ (diag.status.thermal_status[1].is_warning
                        \/ diag.status.thermal_status[1].is_critical))
            \/ (\E j \in 1..Len(diag.status.groups) : GroupHasFault(diag.status.groups[j]))
            \/ (\E j \in 1..Len(diag.status.channels) :
                   diag.status.channels[j].has_short \/ diag.status.channels[j].has_overtemp))

\* h is a prefix of t.
IsPrefix(h, t) == Len(h) <= Len(t) /\ SubSeq(t, 1, Len(h)) = h

\* C21: within a diagnostic run, once has_any_fault is true no later step sets it
\* back to false, and fault_summary entries are only appended, never removed.
C21_FaultsMonotonic ==
    [][/\ diag.status.has_any_fault => diag'.status.has_any_fault
       /\ IsPrefix(diag.status.fault_summary, diag'.status.fault_summary)]_vars

\* C21 happens: the global protect query found a fault, the thermal query then
\* decoded a normal state, the groups were queried without a fault, and the
\* returned status still carries the flag and the line of the global fault.
C21_Witness ==
    /\ pc = "diag_done"
    /\ diag.status.global_protect # <<>> /\ diag.status.global_protect[1].has_any_fault
    /\ diag.status.thermal_status # <<>> /\ diag.status.thermal_status[1].is_normal
    /\ diag.status.groups # <<>>
    /\ \A j \in 1..Len(diag.status.groups) : ~GroupHasFault(diag.status.groups[j])
    /\ diag.status.has_any_fault
    /\ diag.status.fault_summary # <<>>

\* The run has returned, its global protect query failed, the connect for the
\* groups worked and every query of every group was answered.
GlobalFailedGroupsSucceeded ==
    /\ pc = "diag_done"
    /\ "global_protect" \in diag.failed
    /\ "groups" \notin diag.failed
    /\ \A g \in 0..(GroupCount(diag.num_groups) - 1), n \in 1..Len(GroupQueries) :
          QueryName(GroupQueries[n], g) \in DOMAIN diag.received

\* The returned groups list has one entry per queried group, in ascending index
\* order with the names A..H, and global_protect is absent.
GroupsPopulated ==
    /\ Len(diag.status.groups) = GroupCount(diag.num_groups)
    /\ \A j \in 1..Len(diag.status.groups) :
          /\ diag.status.groups[j].group_index = j - 1
          /\ diag.status.groups[j].group_name = <<"A", "B", "C", "D", "E", "F", "G", "H">>[j]
    /\ diag.status.global_protect = <<>>

\* The OR of the has_any_fault flags of the returned groups.
GroupFlagsOr ==
    \E j \in 1..Len(diag.status.groups) :
       /\ diag.status.groups[j].protect_status # <<>>
       /\ diag.status.groups[j].protect_status[1].has_any_fault

C23_ThermalUnsupportedRecorded ==
    (pc = "diag_done" /\ "thermal" \in diag.unanswered) =>
       /\ ("groups" \in diag.failed
             \/ Len(diag.status.groups) = GroupCount(diag.num_groups))
       /\ diag.status.thermal_status # <<>>
       /\ ~diag.status.thermal_status[1].query_supported

\* The stage an entry of status.errors names.
ErrorStage(e) ==
    CASE e.kind = "Power query failed" -> "power"
      [] e.kind = "Connection failed" -> "connectivity"
      [] OTHER -> "other"

\* C24: the returned status says what failed: for every stage that failed (power,
\* global fault, thermal communication error, connect for the group queries) the
\* errors list has an entry naming that stage.
C24_ErrorsNameFailedStages ==
    pc = "diag_done" =>
       \A st \in diag.failed \ (diag.unanswered \cap {"thermal"}) :
          \E k \in 1..Len(diag.status.errors) : ErrorStage(diag.status.errors[k]) = st

\* C25: a burst test always returns a result and never raises, for every
\* count >= 0 (count = 0 against a reachable device included), every delay and
\* every device behaviour, in CommandTester and in MK3ProtocolTester.
C25_BurstNeverRaises ==
    pc # "burst_raised"

\* The calls that take a group index, and those that take a channel index.
GroupCalls == {"build_group", "send_group_command", "set_group_volume_direct"}
ChannelCalls == {"build_channel", "query_channel_short_protect"}

\* C26: a group index outside 0..7 or a channel index outside 8..15 is rejected
\* with an error before any bytes are built or sent; no builder and no per-group
\* or per-channel send operation emits a command carrying such an index.
C26_BadIndexRejected ==
    ((codec.fn \in GroupCalls /\ codec.index \notin 0..7)
        \/ (codec.fn \in ChannelCalls /\ codec.index \notin 8..15)) =>
       (codec.raised /\ codec.bytes = <<>> /\ ~codec.sent)

\* C27: for every supported code and every group index 0..7 the built per-group
\* command is the five bytes FF 55 02 <code> <group>, so the pair is read back from
\* its last two bytes and no other pair builds the same bytes; every global command
\* is the four bytes FF 55 01 <code>.
C27_GroupCommandRoundTrips ==
    /\ (codec.fn = "build_group" /\ codec.index \in 0..7) =>
          /\ ~codec.raised
          /\ Len(codec.bytes) = 5
          /\ SubSeq(codec.bytes, 1, 3) = <<255, 85, 2>>
          /\ <<codec.bytes[4], codec.bytes[5]>> = <<codec.cmd, codec.index>>
          /\ \A c \in 0..255, g \in 0..7 :
                build_group(c, g).bytes = codec.bytes => <<c, g>> = <<codec.cmd, codec.index>>
    /\ codec.fn \in {"build_global", "global_volume_set"} =>
          /\ ~codec.raised
          /\ codec.bytes = <<255, 85, 1, codec.cmd>>

\* C27 happens: the power toggle of group H was built as FF 55 02 67 07.
C27_Witness ==
    /\ codec.fn = "build_group" /\ codec.cmd = 103 /\ codec.index = 7
    /\ codec.bytes = <<255, 85, 2, 103, 7>>

\* C28: volume_hex_to_db(volume_db_to_hex(db)) is db clamped to -70..0.
C28_VolumeRoundTrip ==
    codec.fn = "volume" =>
       codec.back = (IF codec.db < -70 THEN -70 ELSE IF codec.db > 0 THEN 0 ELSE codec.db)

\* C28 happens: a level below the range was encoded as 0x71 and came back as -70.
C28_Witness ==
    /\ codec.fn = "volume"
    /\ codec.db = -72
    /\ codec.hex = 113
    /\ codec.back = -70

\* C29: the volume byte the codec produces (volume_db_to_hex,
\* set_group_volume_direct, set_global_volume_direct) lies in 0x71..0xB6, with
\* -70 dB encoded as 0x71 and 0 dB as 0xB6.
C29_VolumeByteRange ==
    codec.fn \in {"volume", "set_group_volume_direct", "set_global_volume_direct"} =>
       /\ codec.hex \in 113..182
       /\ (codec.db = -70 => codec.hex = 113)
       /\ (codec.db = 0 => codec.hex = 182)

\* The flags a decoder returned are well formed: the named flags are booleans and
\* the reserved bits and the raw value are in the range of their width.
FlagsValid ==
    /\ Len(codec.flags) = 1
    /\ \A f \in DOMAIN codec.flags[1] \ {"reserved_bits", "raw_value"} :
          codec.flags[1][f] \in BOOLEAN
    /\ codec.flags[1].reserved_bits \in 0..15
    /\ codec.flags[1].raw_value = codec.byte

\* C30: the global and the per-group fault decoders return a flag set for every
\* byte 0..255, with has_any_fault = (byte # 0).
C30_DecodersTotal ==
    codec.fn \in {"decode_global", "decode_group"} =>
       /\ FlagsValid
       /\ codec.flags[1].has_any_fault = (codec.byte # 0)

\* C30 happens: a byte with only a reserved bit set was decoded by the global
\* decoder: no named flag, and has_any_fault is true.
C30_Witness ==
    /\ codec.fn = "decode_global" /\ codec.byte = 128
    /\ ~codec.flags[1].protection_active /\ ~codec.flags[1].amplifier_fault
    /\ codec.flags[1].has_any_fault

\* 1 for a set flag, 0 for a clear one.
FlagValue(f) == IF f THEN 1 ELSE 0

\* C31: for every byte the global decoder yields its four flags as bits 0..3 and
\* the group decoder its five flags as bits 0..4, and the reserved upper bits are
\* returned too, so that the flags and reserved_bits rebuild the byte.
C31_DecodeFollowsBitTable ==
    /\ codec.fn = "decode_global" =>
          LET f == codec.flags[1] IN
          /\ f.protection_active = (codec.byte % 2 = 1)
          /\ f.thermal_warning = ((codec.byte \div 2) % 2 = 1)
          /\ f.power_supply_fault = ((codec.byte \div 4) % 2 = 1)
          /\ f.amplifier_fault = ((codec.byte \div 8) % 2 = 1)
          /\ codec.byte = FlagValue(f.protection_active) + 2 * FlagValue(f.thermal_warning)
                            + 4 * FlagValue(f.power_supply_fault)
                            + 8 * FlagValue(f.amplifier_fault) + 16 * f.reserved_bits
    /\ codec.fn = "decode_group" =>
          LET f == codec.flags[1] IN
          /\ f.muted_due_to_protect = (codec.byte % 2 = 1)
          /\ f.thermal_protect = ((codec.byte \div 2) % 2 = 1)
          /\ f.over_current = ((codec.byte \div 4) % 2 = 1)
          /\ f.load_fault = ((codec.byte \div 8) % 2 = 1)
          /\ f.dc_fault = ((codec.byte \div 16) % 2 = 1)
          /\ codec.byte = FlagValue(f.muted_due_to_protect) + 2 * FlagValue(f.thermal_protect)
                            + 4 * FlagValue(f.over_current) + 8 * FlagValue(f.load_fault)
                            + 16 * FlagValue(f.dc_fault) + 32 * f.reserved_bits

\* C31 happens: the global decoder was given 0x05 and returned protection_active
\* and power_supply_fault, no thermal_warning, no amplifier_fault, has_any_fault.
C31_Witness ==
    /\ codec.fn = "decode_global" /\ codec.byte = 5
    /\ codec.flags[1].protection_active /\ codec.flags[1].power_supply_fault
    /\ ~codec.flags[1].thermal_warning /\ ~codec.flags[1].amplifier_fault
    /\ codec.flags[1].reserved_bits = 0
    /\ codec.flags[1].has_any_fault

\* C37: the encoding is unambiguous: for every db in -70..0 the global volume-set
\* command FF 55 01 <volume byte> differs from every global control or query
\* command (power query 0x70, global fault query 0x71, thermal query 0x72).
C37_VolumeSetIsNoQuery ==
    (codec.fn \in {"global_volume_set", "set_global_volume_direct"}
        /\ codec.db \in -70..0) =>
       codec.bytes \notin MK3CommandValues

\* C38: in every status run_full_diagnostic returns, has_any_fault is true if and
\* only if fault_summary is non-empty.
C38_FlagIffSummary ==
    pc = "diag_done" =>
       (diag.status.has_any_fault <=> diag.status.fault_summary # <<>>)

\* C36: a burst test counts a command as successful only if at least one response
\* byte was received for it: an iteration whose read returned zero bytes because
\* the device closed the connection is counted as failed, in both testers.
C36_SuccessNeedsBytes ==
    pc \in {"burst_loop", "mk3_loop", "burst_done"} =>
       result.successful <= hist.replies

\* The recorded burst was complete and good enough: all per_test commands were
\* attempted and at least (100 - threshold)% of them succeeded.
CompletePassingTest(t) ==
    /\ t.successful + t.failed = find.per_test
    /\ t.successful * 100 >= (100 - find.threshold) * find.per_test

\* C34: find_optimal_delay recommends a delay only on the evidence of a complete
\* burst: when recommended_delay_ms = d, the burst at delay d attempted all
\* commands_per_test commands and enough of them succeeded; a burst cut short by
\* a failed reconnection or a cancel never makes its delay pass.
C34_RecommendsOnCompleteBurst ==
    (pc \in {"find_loop", "find_done"} /\ find.recommended_delay_ms # NoDelay) =>
       \E k \in 1..Len(find.tests) :
          /\ find.tests[k].delay_ms = find.recommended_delay_ms
          /\ CompletePassingTest(find.tests[k])

\* C33: a cancel is never lost: once cancel() has been called after
\* find_optimal_delay started, no further burst is started; the reset_cancel at
\* the start of burst_test does not erase a cancel issued between the flag check
\* of the loop and that reset.
C33_CancelNeverLost ==
    ~find.lost

\* The number of tests of the report with the given status.
RECURSIVE CountStatus(_, _)
CountStatus(tests, status) ==
    IF tests = <<>> THEN 0
    ELSE (IF Head(tests).status = status THEN 1 ELSE 0) + CountStatus(Tail(tests), status)

\* C39: run_diagnostics reports overall_status "healthy" only if at least one
\* test ran and every executed test ended PASSED or SKIPPED; a test that raised
\* is appended to the report with status ERROR and the remaining tests still
\* run; the summary counters add up to the number of tests in the report.
C39_HealthyMeansAllPassed ==
    pc = "run_done" =>
       /\ (report.overall_status = "healthy" =>
              /\ report.tests # <<>>
              /\ \A k \in 1..Len(report.tests) :
                    report.tests[k].status \in {"PASSED", "SKIPPED"})
       /\ (~runner_cancel => Len(report.tests) = Len(RunnerTests))
       /\ report.summary.passed + report.summary.failed + report.summary.warnings
             + report.summary.skipped = Len(report.tests)

\* C35: no session is used by two callers at once: when two control-panel
\* actions run on their worker threads, neither operation's connect replaces,
\* nor its disconnect closes or drops, the socket the other operation is using,
\* no call ends in an exception, and a call that succeeds has read the reply to
\* its own command and to no other.
C35_NoSharedUse ==
    /\ ~workers.replaced
    /\ ~workers.closed_other
    /\ ~workers.cleared_other
    /\ \A w \in Workers :
          /\ ~workers.th[w].raised
          /\ workers.th[w].got \subseteq {w}
          /\ (workers.th[w].success => workers.th[w].got = {w})

\* s ends with p.
EndsWith(s, p) == Len(s) >= Len(p) /\ SubSeq(s, Len(s) - Len(p) + 1, Len(s)) = p

\* C32: parse never raises and never reports failure because of malformed input:
\* for every text, also one cut short right after "Group:" or "Vol=", it returns
\* success = true with the text preserved as raw (up to the surrounding white
\* space) and, for the cut text, no group and no value.
C32_ParseNeverFails ==
    codec.fn = "parse" =>
       /\ ~codec.out.raised
       /\ codec.out.success
       /\ codec.out.raw = Strip(codec.response)
       /\ (EndsWith(codec.out.raw, Mark.group) => codec.out.group = <<>>)
       /\ ((codec.out.command_type = "volume" /\ EndsWith(codec.out.raw, Mark.vol)) =>
              codec.out.value = <<>>)
====
